---- MODULE Spec2Model ----
(***************************************************************************)
(* Worker orchestration of quiet_observer: the WorkerManager registry      *)
(* (workers/manager.py), the inference loop (workers/inference.py) and the *)
(* process lifetime (main.py), as one state machine.                       *)
(*                                                                         *)
(* Scheduling model: asyncio runs one coroutine at a time, so each action  *)
(* is one coroutine step, from the point where the coroutine is resumed to *)
(* the next await that suspends it.  Suspended coroutines are resumed in   *)
(* any order.  Task.cancel() sets must_cancel; the CancelledError is       *)
(* thrown into the loop at its current await when the task is next run.    *)
(*                                                                         *)
(* What each tick reads from the durable store and gets from the external  *)
(* tools (deployment and model present, stream resolved, frame grabbed,    *)
(* sampling decision, store failure) is an input of the step, drawn with   *)
(* \E from the outcomes the code branches on.                              *)
(***************************************************************************)
EXTENDS Integers, Sequences, FiniteSets, TLC

\* ------------------------------------------------------------------ bounds
Projects == {1, 2}          \* the project ids
TaskIds == {1, 2, 3}        \* the asyncio tasks a run can create
MaxFiles == 1               \* live frames grabbed over a run
MaxRestarts == 1            \* process lifetimes after the first
MaxWaiters == 1             \* stop calls suspended on one task at a time

None == 0                   \* Python's None for ids and files

\* --------------------------------------------------------- pure functions
\* Numbers.  A confidence is an integer number of thousandths.  A box is a
\* normalized center box on a grid; widths and heights are even numbers of grid
\* units, so that the halves of _xywh_to_xyxy are exact.  An IoU and an IoU
\* threshold are fractions <<numerator, denominator>> with a positive
\* denominator; floating-point rounding is not modelled.
LOW_CONFIDENCE_SAMPLE_THRESHOLD == 300
HIGH_CONFIDENCE_SAMPLE_THRESHOLD == 700
AUTO_SAMPLE_INTERVAL_SECONDS == 600
DETECTION_SUPPRESSION_IOU_THRESHOLD == <<9, 10>>

Max(a, b) == IF a >= b THEN a ELSE b

Min(a, b) == IF a <= b THEN a ELSE b

\* q <= r for fractions with positive denominators
FracLeq(q, r) == q[1] * r[2] <= r[1] * q[2]

\* _xywh_to_xyxy(box): <<x1, y1, x2, y2>>
xywh_to_xyxy(box) ==
    LET half_w == box.width \div 2
        half_h == box.height \div 2
    IN  <<box.x - half_w, box.y - half_h, box.x + half_w, box.y + half_h>>

\* an IoU that would divide by the area of the first box (tests IoUValues)
iou_over_first(first, second) ==
    LET a == xywh_to_xyxy(first)
        b == xywh_to_xyxy(second)
        inter_w == Max(0, Min(a[3], b[3]) - Max(a[1], b[1]))
        inter_h == Max(0, Min(a[4], b[4]) - Max(a[2], b[2]))
        area_a == Max(0, a[3] - a[1]) * Max(0, a[4] - a[2])
    IN  IF area_a <= 0 THEN <<0, 1>> ELSE <<inter_w * inter_h, area_a>>

\* _iou_xywh(first, second)
iou_xywh(first, second) ==
    LET a == xywh_to_xyxy(first)
        b == xywh_to_xyxy(second)
        inter_x1 == Max(a[1], b[1])
        inter_y1 == Max(a[2], b[2])
        inter_x2 == Min(a[3], b[3])
        inter_y2 == Min(a[4], b[4])
        inter_w == Max(0, inter_x2 - inter_x1)
        inter_h == Max(0, inter_y2 - inter_y1)
        inter_area == inter_w * inter_h
        area_a == Max(0, a[3] - a[1]) * Max(0, a[4] - a[2])
        area_b == Max(0, b[3] - b[1]) * Max(0, b[4] - b[2])
        union == area_a + area_b - inter_area
    IN  IF union <= 0 THEN <<0, 1>> ELSE <<inter_area, union>>

\* sorted(detections, key=confidence, reverse=True): a stable sort, equal
\* confidences keep their order
RECURSIVE InsertByConfidence(_, _)
InsertByConfidence(det, sorted) ==
    IF sorted = <<>> THEN <<det>>
    ELSE IF Head(sorted).confidence >= det.confidence
         THEN <<Head(sorted)>> \o InsertByConfidence(det, Tail(sorted))
         ELSE <<det>> \o sorted

RECURSIVE sorted_detections(_)
sorted_detections(detections) ==
    IF detections = <<>> THEN <<>>
    ELSE LET n == Len(detections)
         IN  InsertByConfidence(detections[n], sorted_detections(SubSeq(detections, 1, n - 1)))

\* a test that would keep a candidate that overlaps a class of its own only
\* (tests SuppressionKeepsNoOverlap)
KeepsAcrossClasses(candidate, kept, iou_threshold) ==
    \A i \in DOMAIN kept :
        \/ FracLeq(iou_xywh(candidate, kept[i]), iou_threshold)
        \/ kept[i].class_name # candidate.class_name

\* all(_iou_xywh(candidate, existing) <= iou_threshold for existing in kept)
Keeps(candidate, kept, iou_threshold) ==
    \A i \in DOMAIN kept : FracLeq(iou_xywh(candidate, kept[i]), iou_threshold)

\* the for loop of _suppress_overlapping_detections over the sorted candidates
RECURSIVE KeepEach(_, _, _)
KeepEach(candidates, kept, iou_threshold) ==
    IF candidates = <<>> THEN kept
    ELSE KeepEach(Tail(candidates),
                  IF Keeps(Head(candidates), kept, iou_threshold)
                  THEN Append(kept, Head(candidates)) ELSE kept,
                  iou_threshold)

\* a suppression that would compare a candidate with the detection sorted just
\* before it only (tests SuppressionIsIdempotent)
RECURSIVE KeepVersusPrevious(_, _, _)
KeepVersusPrevious(sorted, i, iou_threshold) ==
    IF i > Len(sorted) THEN <<>>
    ELSE (IF i = 1 \/ FracLeq(iou_xywh(sorted[i], sorted[i - 1]), iou_threshold)
          THEN <<sorted[i]>> ELSE <<>>)
         \o KeepVersusPrevious(sorted, i + 1, iou_threshold)

suppress_against_previous(detections, iou_threshold) ==
    KeepVersusPrevious(sorted_detections(detections), 1, iou_threshold)

\* _suppress_overlapping_detections(detections, iou_threshold)
suppress_overlapping_detections(detections, iou_threshold) ==
    IF Len(detections) <= 1 THEN detections
    ELSE KeepEach(sorted_detections(detections), <<>>, iou_threshold)

\* f"{conf:.2f}": the confidence in hundredths, rounded to the nearest; the
\* confidences of the model never lie halfway between two hundredths
Format2(conf) == (conf + 5) \div 10

\* a band test that would leave out the low threshold itself (tests SamplingDecisionIsReference)
InOpenBand(conf, low_threshold, high_threshold) ==
    low_threshold < conf /\ conf <= high_threshold

\* low_threshold <= conf <= high_threshold
InBand(conf, low_threshold, high_threshold) ==
    low_threshold <= conf /\ conf <= high_threshold

NoReason == [sample |-> FALSE, reason |-> "", conf |-> None]

\* the for loop of should_sample_frame: the first detection in the band decides
RECURSIVE FirstUncertain(_, _, _)
FirstUncertain(detections, low_threshold, high_threshold) ==
    IF detections = <<>> THEN NoReason
    ELSE IF InBand(Head(detections).confidence, low_threshold, high_threshold)
         THEN [sample |-> TRUE, reason |-> "uncertain_confidence",
               conf |-> Format2(Head(detections).confidence)]
         ELSE FirstUncertain(Tail(detections), low_threshold, high_threshold)

\* should_sample_frame(detections, last_sampled_at, now, auto_sample_interval,
\* low_threshold, high_threshold): the decision and its reason
should_sample_frame(detections, last_sampled_at, now, auto_sample_interval, low_threshold, high_threshold) ==
    LET uncertain == FirstUncertain(detections, low_threshold, high_threshold)
    IN  IF uncertain.sample THEN uncertain
        ELSE IF now - last_sampled_at >= auto_sample_interval
             THEN [sample |-> TRUE, reason |-> "auto_sample", conf |-> None]
             ELSE NoReason

\* The projects row is modelled by the columns the loops read and write
\* (inference.py lines 296-298, capture.py lines 91-92 and 116); the schema
\* declarations of models.py are outside the model.
\* the sampling columns of a projects row left at their defaults (null)
DefaultSettings ==
    [auto_sample_interval_seconds |-> None, low_confidence_threshold |-> None,
     high_confidence_threshold |-> None]

\* what a tick finds at its start: the project query raises (store_error), the
\* projects row is gone (missing), there is no active deployment, the active
\* deployment's model version row is gone, or the active deployment points at a
\* model version (deployed)
TickInputs == {"store_error", "missing", "no_deployment", "no_model_version", "deployed"}

\* A run is bounded by its limits: the projects the callers name, the tasks
\* that can be created, the frames that can be grabbed, the restarts, and the
\* stop calls that can wait on one task; and by what its ticks can be given:
\* the lists of raw detections the model returns, the readings of
\* time.monotonic(), and the sampling columns of the projects rows.
\* One project under concurrent callers: three tasks, so that a cancelled
\* loop, a loop that lost its registry entry and a newly started loop coexist.
OneProject ==
    [projects |-> {1}, tasks |-> {1, 2, 3}, files |-> MaxFiles,
     restarts |-> MaxRestarts, waiters |-> MaxWaiters,
     detector |-> {<<>>}, clock |-> {AUTO_SAMPLE_INTERVAL_SECONDS},
     project |-> DefaultSettings, versions |-> {1}, weights |-> {1},
     ticks |-> {"store_error", "missing", "deployed"},
     detect |-> {"detections"}]

\* Two projects, two tasks.
TwoProjects ==
    [projects |-> {1, 2}, tasks |-> {1, 2}, files |-> MaxFiles,
     restarts |-> MaxRestarts, waiters |-> MaxWaiters,
     detector |-> {<<>>}, clock |-> {AUTO_SAMPLE_INTERVAL_SECONDS},
     project |-> DefaultSettings, versions |-> {1}, weights |-> {1}, ticks |-> TickInputs,
     detect |-> {"detections"}]

\* a detection of run_inference_on_frame, lines 114-121
Detection(class_name, confidence, x, y, width, height) ==
    [class_name |-> class_name, confidence |-> confidence,
     x |-> x, y |-> y, width |-> width, height |-> height]

\* One project and one loop, with ticks that see detections: none, one in the
\* default band, one above it, two outside it, and two of different classes on
\* one box; under the default sampling columns or under columns of the
\* project's own.
RawDetections ==
    {<<>>,
     <<Detection("a", 450, 2, 2, 4, 4)>>,
     <<Detection("a", 900, 2, 2, 4, 4)>>,
     <<Detection("a", 100, 1, 2, 2, 4), Detection("b", 900, 3, 2, 2, 4)>>,
     <<Detection("a", 900, 2, 2, 4, 4), Detection("b", 800, 2, 2, 4, 4)>>}

OwnSettings ==
    [auto_sample_interval_seconds |-> 100, low_confidence_threshold |-> 800,
     high_confidence_threshold |-> 950]

Ticks ==
    [projects : {{1}}, tasks : {{1}}, files : {MaxFiles + 1},
     restarts : {MaxRestarts}, waiters : {MaxWaiters},
     detector : {RawDetections}, clock : {{0, 600, 700}},
     project : {DefaultSettings, OwnSettings}, versions : {{1}}, weights : {{1}}, ticks : {TickInputs},
     detect : {{"detections"}}]

\* One project whose loop is started twice, with ticks that see no detection
\* or two detections outside the default band.
TwoRuns ==
    [projects |-> {1}, tasks |-> {1, 2}, files |-> MaxFiles + 1,
     restarts |-> MaxRestarts, waiters |-> MaxWaiters,
     detector |-> {<<>>, <<Detection("a", 100, 1, 2, 2, 4), Detection("b", 900, 3, 2, 2, 4)>>},
     clock |-> {0, 600, 700}, project |-> DefaultSettings,
     versions |-> {1}, weights |-> {1}, ticks |-> TickInputs,
     detect |-> {"detections"}]

\* One project and one loop whose active deployment moves between two model
\* versions; the weights file of version 2 is missing.
TwoVersions ==
    [projects |-> {1}, tasks |-> {1}, files |-> MaxFiles + 1,
     restarts |-> MaxRestarts, waiters |-> MaxWaiters,
     detector |-> {<<>>}, clock |-> {0}, project |-> DefaultSettings,
     versions |-> {1, 2}, weights |-> {1}, ticks |-> TickInputs,
     detect |-> {"detections"}]

\* One project and one loop whose active deployment moves between two model
\* versions that both have their weights file; every tick sees one detection
\* inside the confidence band.
TwoModels ==
    [projects |-> {1}, tasks |-> {1}, files |-> MaxFiles + 1,
     restarts |-> MaxRestarts, waiters |-> MaxWaiters,
     detector |-> {<<Detection("a", 450, 2, 2, 4, 4)>>}, clock |-> {0},
     project |-> DefaultSettings,
     versions |-> {1, 2}, weights |-> {1, 2}, ticks |-> TickInputs,
     detect |-> {"detections"}]

\* One project and one loop whose detection pass can fail: the frame file is
\* gone when the pass looks for it, or the pass raises.
FailingDetector ==
    [projects |-> {1}, tasks |-> {1}, files |-> MaxFiles + 1,
     restarts |-> MaxRestarts, waiters |-> MaxWaiters,
     detector |-> {<<>>, <<Detection("a", 450, 2, 2, 4, 4)>>}, clock |-> {0, 600, 700},
     project |-> DefaultSettings,
     versions |-> {1}, weights |-> {1}, ticks |-> {"deployed"},
     detect |-> {"detections", "missing", "error"}]

VARIABLES
    tasks,                  \* asyncio.Task objects with the locals of their coroutine
    sampling_tasks,         \* WorkerManager._sampling_tasks
    inference_tasks,        \* WorkerManager._inference_tasks
    latest_inference_live,  \* WorkerManager._latest_inference_live
    waiters,                \* stop_sampling/stop_inference calls suspended at "await task"
    stop_all,               \* the stop_all() call of the lifespan shutdown
    sessions,               \* durable store: inference_sessions rows, id = index
    frames,                 \* durable store: frames rows written by the loops, id = index
    detection_rows,         \* durable store: detections rows
    last_inferred_frame_id, \* durable store: projects.last_inferred_frame_id
    disk,                   \* live frame files present under projects/<id>/live
    nfiles,                 \* live frame files written so far (names are timestamps)
    restarts,               \* process lifetimes ended so far
    limits,                 \* the bounds of the run
    call,                   \* a call of a pure function: its arguments and its result
    raised,                 \* the call that raised in the last step, or "none"
    deployments,            \* durable store: deployments rows, id = index
    last_capture_at         \* durable store: projects.last_capture_at

vars == <<tasks, sampling_tasks, inference_tasks, latest_inference_live, waiters,
          stop_all, sessions, frames, detection_rows, last_inferred_frame_id, disk,
          nfiles, restarts, limits, call, raised, deployments, last_capture_at>>

\* ------------------------------------------------------------- task objects
\* Of a tick the record keeps the locals detections and should_sample, the
\* reading of time.monotonic() passed to should_sample_frame (now) and what
\* the tick raised (tick_error, the "e" of the except clause).
\* pc: unborn (not created), created (scheduled, first step not run),
\* resolve / grab / detect / sleep (suspended at that await),
\* returned / cancelled / error (done), killed (its process ended).
Suspended == {"resolve", "grab", "detect", "sleep"}
Finished == {"returned", "cancelled", "error"}

NoTask ==
    [kind |-> "none", project_id |-> None, pc |-> "unborn", must_cancel |-> FALSE,
     session_id |-> None, interval_set |-> FALSE, stream_url |-> FALSE,
     live_tick_id |-> 0, frames_processed |-> 0,
     latest_live_file |-> None, live_abs_path |-> None,
     last_sampled_at |-> 0, now |-> 0, detections |-> <<>>,
     should_sample |-> FALSE, tick_error |-> "none",
     model |-> None, model_version_id |-> None, model_version |-> None]

KilledTask == [NoTask EXCEPT !.pc = "killed"]

NewTask(kind, p) == [NoTask EXCEPT !.kind = kind, !.project_id = p, !.pc = "created"]

\* Task.done()
Done(tk) == tk.pc \in Finished

\* the loop body has been entered and has not been left
Executing(tk) == tk.pc \in Suspended

Unborn == {t \in limits.tasks : tasks[t].pc = "unborn"}

FreshTask == CHOOSE t \in Unborn : \A u \in Unborn : t <= u

\* no entry in _latest_inference_live: get_latest_inference_live returns None
NoSnapshot == [tick_id |-> 0, file_path |-> None, detections |-> <<>>]

IdleStopAll == [phase |-> "idle", keys |-> <<>>, awaiting |-> None, registered |-> {}]

\* a durable store left by an earlier process lifetime that was killed while it
\* ran one inference loop per project: one open session row each
StaleSessions ==
    <<[project_id |-> 1, stopped_at |-> None, frames_processed |-> 0,
       model_version_id |-> None],
      [project_id |-> 2, stopped_at |-> None, frames_processed |-> 0,
       model_version_id |-> None]>>

\* no pure function is being called
NoCall == [fn |-> "none"]

InitState(l, stores, calls) ==
    /\ limits = l
    /\ tasks = [t \in TaskIds |-> NoTask]
    /\ sampling_tasks = [p \in Projects |-> None]
    /\ inference_tasks = [p \in Projects |-> None]
    /\ latest_inference_live = [p \in Projects |-> NoSnapshot]
    /\ waiters = [t \in TaskIds |-> 0]
    /\ stop_all = IdleStopAll
    /\ sessions \in stores
    /\ frames = <<>>
    /\ detection_rows = <<>>
    /\ last_inferred_frame_id = [p \in Projects |-> None]
    /\ disk = {}
    /\ nfiles = 0
    /\ restarts = 0
    /\ call \in calls
    /\ raised = "none"
    /\ deployments = <<>>
    /\ last_capture_at = [p \in Projects |-> None]

\* the state after construction, with no pure function under call
InitWith(l, stores) == InitState(l, stores, {NoCall})

\* the first start of the process, on an empty store
Init == InitWith(OneProject, {<<>>})

InitTwoVersions == InitWith(TwoVersions, {<<>>})

InitTwoModels == InitWith(TwoModels, {<<>>})

InitFailingDetector == InitWith(FailingDetector, {<<>>})

\* a start of the process on an empty store or on a store left by a killed one
InitTwoProjects == InitWith(TwoProjects, {<<>>, StaleSessions})

\* the first start of the process, with ticks that see detections
InitTicks == \E l \in Ticks : InitState(l, {<<>>}, {NoCall})

\* the first start of the process, for a loop that is stopped and started again
InitTwoRuns == InitState(TwoRuns, {<<>>}, {NoCall})

\* ---------------------------------------------------------- WorkerManager
\* is_sampling_running / is_inference_running, on a registry
is_running(registry, tks, p) == registry[p] # None /\ ~Done(tks[registry[p]])

is_sampling_running(p) == is_running(sampling_tasks, tasks, p)

is_inference_running(p) == is_running(inference_tasks, tasks, p)

\* get_latest_inference_live
get_latest_inference_live(p) == latest_inference_live[p]

\* set_latest_inference_live(project_id, snapshot); NoSnapshot pops the entry
set_latest_inference_live(live, p, snapshot) == [live EXCEPT ![p] = snapshot]

\* requests are served while the process is up and the lifespan has not begun to shut down
Serving == stop_all.phase = "idle"

\* "from .capture import sample_loop": capture.py defines capture_loop and no
\* sample_loop, so the import in start_sampling raises ImportError
sample_loop_defined == FALSE

\* start_sampling(project_id)
StartSampling(p) ==
    /\ Serving
    /\ IF is_sampling_running(p)
       THEN /\ raised' = "none"
            /\ UNCHANGED <<tasks, sampling_tasks>>
       ELSE IF ~sample_loop_defined
       THEN /\ raised' = "start_sampling"
            /\ UNCHANGED <<tasks, sampling_tasks>>
       ELSE /\ Unborn # {}
            /\ tasks' = [tasks EXCEPT ![FreshTask] = NewTask("sampling", p)]
            /\ sampling_tasks' = [sampling_tasks EXCEPT ![p] = FreshTask]
            /\ raised' = "none"
    /\ UNCHANGED <<inference_tasks, latest_inference_live, waiters, stop_all, sessions,
                   frames, detection_rows, last_inferred_frame_id, disk, nfiles, restarts, limits, call,
                   deployments, last_capture_at>>

\* start_inference(project_id)
StartInference(p) ==
    /\ Serving
    /\ IF is_inference_running(p)
       THEN /\ raised' = "none"
            /\ UNCHANGED <<tasks, inference_tasks>>
       ELSE /\ Unborn # {}
            /\ tasks' = [tasks EXCEPT ![FreshTask] = NewTask("inference", p)]
            /\ inference_tasks' = [inference_tasks EXCEPT ![p] = FreshTask]
            /\ raised' = "none"
    /\ UNCHANGED <<sampling_tasks, latest_inference_live, waiters, stop_all, sessions,
                   frames, detection_rows, last_inferred_frame_id, disk, nfiles, restarts, limits, call,
                   deployments, last_capture_at>>

\* "if task and not task.done()": the stop call cancels the task and awaits it
MustAwait(registry, tks, p) == registry[p] # None /\ ~Done(tks[registry[p]])

\* a stop that would await the task without cancelling it
\* (tests StopEventuallyReturns)
CancelNothing(tks, t) == tks

\* task.cancel()
Cancel(tks, t) == [tks EXCEPT ![t].must_cancel = TRUE]

\* a stop that would not wait for the task it cancelled (tests StopAllStopsRegistered)
AwaitReturnsAtOnce(tk) == TRUE

\* "await task" resumes once the task is done
AwaitCompletes(tk) == Done(tk)

\* the tail of stop_sampling: _sampling_tasks.pop(project_id, None)
PopSampling(registry, p) == [registry EXCEPT ![p] = None]

\* the tail of stop_inference: _inference_tasks.pop(project_id, None)
PopInference(registry, p) == [registry EXCEPT ![p] = None]

\* a stop that would keep the live snapshot (tests StopInferenceLeavesStopped)
KeepLive(live, p) == live

\* the tail of stop_inference: _latest_inference_live.pop(project_id, None)
PopLive(live, p) == set_latest_inference_live(live, p, NoSnapshot)

\* stop_sampling(project_id), up to its await or, with nothing to await, its return
StopSampling(p) ==
    /\ Serving
    /\ IF MustAwait(sampling_tasks, tasks, p)
       THEN /\ waiters[sampling_tasks[p]] < limits.waiters
            /\ tasks' = Cancel(tasks, sampling_tasks[p])
            /\ waiters' = [waiters EXCEPT ![sampling_tasks[p]] = @ + 1]
            /\ raised' = "none"
            /\ UNCHANGED sampling_tasks
       ELSE /\ sampling_tasks' = PopSampling(sampling_tasks, p)
            /\ raised' = "none"
            /\ UNCHANGED <<tasks, waiters>>
    /\ UNCHANGED <<inference_tasks, latest_inference_live, stop_all, sessions, frames, detection_rows, last_inferred_frame_id,
                   disk, nfiles, restarts, limits, call,
                   deployments, last_capture_at>>

\* stop_inference(project_id), up to its await or, with nothing to await, its return
StopInference(p) ==
    /\ Serving
    /\ IF MustAwait(inference_tasks, tasks, p)
       THEN /\ waiters[inference_tasks[p]] < limits.waiters
            /\ tasks' = Cancel(tasks, inference_tasks[p])
            /\ waiters' = [waiters EXCEPT ![inference_tasks[p]] = @ + 1]
            /\ raised' = "none"
            /\ UNCHANGED <<inference_tasks, latest_inference_live>>
       ELSE /\ inference_tasks' = PopInference(inference_tasks, p)
            /\ latest_inference_live' = PopLive(latest_inference_live, p)
            /\ raised' = "none"
            /\ UNCHANGED <<tasks, waiters>>
    /\ UNCHANGED <<sampling_tasks, stop_all, sessions, frames, detection_rows, last_inferred_frame_id, disk,
                   nfiles, restarts, limits, call,
                   deployments, last_capture_at>>

\* a suspended stop_sampling / stop_inference resumes from "await task": a
\* CancelledError is swallowed, any other exception of the task propagates
\* out of the call before the pops
StopResumes(t) ==
    /\ waiters[t] > 0
    /\ AwaitCompletes(tasks[t])
    /\ waiters' = [waiters EXCEPT ![t] = @ - 1]
    /\ LET p == tasks[t].project_id
           op == IF tasks[t].kind = "sampling" THEN "stop_sampling" ELSE "stop_inference"
       IN  IF tasks[t].pc = "error"
           THEN /\ raised' = op
                /\ UNCHANGED <<sampling_tasks, inference_tasks, latest_inference_live>>
           ELSE IF tasks[t].kind = "sampling"
           THEN /\ sampling_tasks' = PopSampling(sampling_tasks, p)
                /\ raised' = "none"
                /\ UNCHANGED <<inference_tasks, latest_inference_live>>
           ELSE /\ inference_tasks' = PopInference(inference_tasks, p)
                /\ latest_inference_live' = PopLive(latest_inference_live, p)
                /\ raised' = "none"
                /\ UNCHANGED sampling_tasks
    /\ UNCHANGED <<tasks, stop_all, sessions, frames, detection_rows, last_inferred_frame_id, disk, nfiles, restarts, limits, call,
                   deployments, last_capture_at>>

\* a loop start that would keep the stale sessions (tests AtMostOneOpenSession)
keep_orphaned_sessions(ss, p) == ss

\* a loop start that would close the open sessions of every project (tests LoopStartClosesStale)
close_all_open_sessions(ss, p) ==
    [i \in DOMAIN ss |->
        IF ss[i].stopped_at = None THEN [ss[i] EXCEPT !.stopped_at = 1] ELSE ss[i]]

\* ------------------------------------------------------------ inference loop
\* _close_orphaned_sessions(project_id): stamps the open rows of the project
close_orphaned_sessions(ss, p) ==
    [i \in DOMAIN ss |->
        IF ss[i].project_id = p /\ ss[i].stopped_at = None
        THEN [ss[i] EXCEPT !.stopped_at = 1]
        ELSE ss[i]]

\* _open_session(project_id): a new row; its id is its index
open_session(ss, p) ==
    Append(ss, [project_id |-> p, stopped_at |-> None, frames_processed |-> 0,
                model_version_id |-> None])

\* _close_session(session_id): stopped_at = utcnow(), a value the row did not
\* hold before (stopped_at counts the times the column was written)
close_session(ss, id) ==
    IF id \in DOMAIN ss THEN [ss EXCEPT ![id].stopped_at = @ + 1] ELSE ss

\* a test that would load a model only when none has been loaded before
\* (tests DetectionsCarryTheirModel)
ReloadOnce(tk, v) == tk.model_version_id = None

\* line 242: if _model_version_id != model_version.id
ReloadNeeded(tk, v) == tk.model_version_id # v

\* a failed load that would keep the model (tests MissingWeightsNoOp)
KeepModel(tk) == tk.model

\* lines 258-260: else: _model = None
UnloadModel(tk) == None

\* lines 242-260: _model and _model_version_id after the tick's load step.  The
\* loaded model is named by the version it was loaded from.
load_model(tk, v) ==
    IF ReloadNeeded(tk, v)
    THEN IF v \in limits.weights
         THEN [tk EXCEPT !.model = v, !.model_version_id = v]
         ELSE [tk EXCEPT !.model = UnloadModel(tk)]
    ELSE tk

\* lines 252-257: sess.model_version_id = model_version.id; db.commit()
write_session_model(ss, tk, v) ==
    IF tk.session_id \in DOMAIN ss
    THEN [ss EXCEPT ![tk.session_id].model_version_id = v]
    ELSE ss

\* a tick head that would go on without an active deployment (tests NoDeploymentNoOp)
EnterTickWithoutDeployment(tk, c, v) ==
    IF c = "store_error"
    THEN [tk EXCEPT !.pc = IF tk.interval_set THEN "sleep" ELSE "error"]
    ELSE IF c = "missing"
    THEN [tk EXCEPT !.pc = "returned"]
    ELSE LET with == load_model([tk EXCEPT !.model_version = v], v)
         IN  [with EXCEPT !.interval_set = TRUE,
                          !.pc = IF with.model = None THEN "sleep"
                                 ELSE IF tk.stream_url THEN "grab" ELSE "resolve"]

\* the head of a loop iteration, lines 217-276, up to the await that suspends
\* it: the stream resolution or the frame grab, or the sleep of an idle tick.
\* A store error before "interval" is first bound makes the sleep raise
\* UnboundLocalError, which ends the loop; a missing project row returns.
\* model_version is the local of lines 235-237, which is read only in a tick
\* that found its model version: the record keeps it from the last such tick.
EnterTick(tk, c, v) ==
    IF c = "store_error"
    THEN [tk EXCEPT !.pc = IF tk.interval_set THEN "sleep" ELSE "error"]
    ELSE IF c = "missing"
    THEN [tk EXCEPT !.pc = "returned"]
    ELSE IF c \in {"no_deployment", "no_model_version"}
    THEN [tk EXCEPT !.interval_set = TRUE, !.pc = "sleep"]
    ELSE LET with == load_model([tk EXCEPT !.model_version = v], v)
         IN  [with EXCEPT !.interval_set = TRUE,
                          !.pc = IF with.model = None THEN "sleep"
                                 ELSE IF tk.stream_url THEN "grab" ELSE "resolve"]

\* the session rows after the head of a tick
EnterTickSessions(ss, tk, c, v) ==
    IF c = "deployed" /\ ReloadNeeded(tk, v) /\ v \in limits.weights
    THEN write_session_model(ss, tk, v)
    ELSE ss

\* the finally block of inference_loop, lines 371-379
\* a cleanup that would leave the snapshot published (tests SnapshotFileExists)
FinallyKeepsLive(live, tk) == live

FinallyLive(live, tk) == set_latest_inference_live(live, tk.project_id, NoSnapshot)

FinallyDisk(d, tk) == d \ {tk.latest_live_file}

\* a cleanup that would leave the session open (tests LoopExitRunsCleanup)
FinallyKeepsSession(ss, tk) == ss

FinallySessions(ss, tk) == close_session(ss, tk.session_id)

\* a task that is done: its coroutine's frame is gone.  Of the locals the record
\* keeps the loop's session id and the last file it grabbed, for the properties.
DoneTask(tk, pc) ==
    [NoTask EXCEPT !.kind = tk.kind, !.project_id = tk.project_id, !.pc = pc,
                   !.session_id = tk.session_id, !.live_abs_path = tk.live_abs_path]

\* an await that would swallow the cancellation and go on (tests CancelEndsSleep)
CancelSwallowed(tk) == [tk EXCEPT !.must_cancel = FALSE]

\* the CancelledError thrown into the loop at its await
Cancelled(tk) == [tk EXCEPT !.pc = "cancelled"]

\* the results of a step of loop t; a step that leaves the loop runs the finally block
LoopCommit(t, tk, ss, d, live) ==
    /\ tasks' = [tasks EXCEPT ![t] = IF Done(tk) THEN DoneTask(tk, tk.pc) ELSE tk]
    /\ sessions' = IF Done(tk) THEN FinallySessions(ss, tk) ELSE ss
    /\ disk' = IF Done(tk) THEN FinallyDisk(d, tk) ELSE d
    /\ latest_inference_live' = IF Done(tk) THEN FinallyLive(live, tk) ELSE live

\* lines 203-214 and the head of the first tick, which finds c and version v
FirstTick(t, c, v) ==
    LET p == tasks[t].project_id
        ss == open_session(close_orphaned_sessions(sessions, p), p)
        tk == [tasks[t] EXCEPT !.session_id = Len(ss)]
    IN  LoopCommit(t, EnterTick(tk, c, v), EnterTickSessions(ss, tk, c, v),
                   disk, latest_inference_live)

\* the head of a later tick, which finds c and version v
LaterTick(t, c, v) ==
    LoopCommit(t, EnterTick(tasks[t], c, v), EnterTickSessions(sessions, tasks[t], c, v),
               disk, latest_inference_live)

\* the first step of the task: lines 203-214 and the head of the first tick.  A
\* task cancelled before its first step never enters the coroutine.
InferenceLoopStart(t) ==
    /\ tasks[t].kind = "inference"
    /\ tasks[t].pc = "created"
    /\ IF tasks[t].must_cancel
       THEN /\ tasks' = [tasks EXCEPT ![t] = DoneTask(tasks[t], "cancelled")]
            /\ UNCHANGED <<sessions, disk, latest_inference_live>>
       ELSE \E c \in limits.ticks, v \in limits.versions : FirstTick(t, c, v)
    /\ raised' = "none"
    /\ UNCHANGED <<sampling_tasks, inference_tasks, waiters, stop_all, frames, detection_rows, last_inferred_frame_id,
                   nfiles, restarts, limits, call,
                   deployments, last_capture_at>>

\* asyncio.sleep(interval) is over, or is cancelled: lines 366-369, then the next tick
InferenceAfterSleep(t) ==
    /\ tasks[t].kind = "inference"
    /\ tasks[t].pc = "sleep"
    /\ IF tasks[t].must_cancel
       THEN LoopCommit(t, Cancelled(tasks[t]), sessions, disk, latest_inference_live)
       ELSE \E c \in limits.ticks, v \in limits.versions : LaterTick(t, c, v)
    /\ raised' = "none"
    /\ UNCHANGED <<sampling_tasks, inference_tasks, waiters, stop_all, frames, detection_rows, last_inferred_frame_id,
                   nfiles, restarts, limits, call,
                   deployments, last_capture_at>>

\* resolve_stream_url returns: lines 265-276
InferenceAfterResolve(t) ==
    /\ tasks[t].kind = "inference"
    /\ tasks[t].pc = "resolve"
    /\ IF tasks[t].must_cancel
       THEN LoopCommit(t, Cancelled(tasks[t]), sessions, disk, latest_inference_live)
       ELSE \E resolved \in BOOLEAN :
            LET tk == IF resolved
                      THEN [tasks[t] EXCEPT !.stream_url = TRUE, !.pc = "grab"]
                      ELSE [tasks[t] EXCEPT !.pc = "sleep"]
            IN  LoopCommit(t, tk, sessions, disk, latest_inference_live)
    /\ raised' = "none"
    /\ UNCHANGED <<sampling_tasks, inference_tasks, waiters, stop_all, frames, detection_rows, last_inferred_frame_id,
                   nfiles, restarts, limits, call,
                   deployments, last_capture_at>>

\* a failed grab that would keep the stream handle (tests StreamHandleCached)
GrabFailedKeepsHandle(tk) == [tk EXCEPT !.pc = "sleep"]

\* lines 277-279: capture_frame returned False, _stream_url = None
GrabFailed(tk) == [tk EXCEPT !.stream_url = FALSE, !.pc = "sleep"]

\* capture_frame returns: lines 276-282.  A grabbed frame is a new file, named by
\* its timestamp; live_abs_path keeps the last file the loop has grabbed.
InferenceAfterGrab(t) ==
    /\ tasks[t].kind = "inference"
    /\ tasks[t].pc = "grab"
    /\ IF tasks[t].must_cancel
       THEN /\ LoopCommit(t, Cancelled(tasks[t]), sessions, disk, latest_inference_live)
            /\ UNCHANGED nfiles
       ELSE \E success \in BOOLEAN :
            IF success
            THEN /\ nfiles < limits.files
                 /\ nfiles' = nfiles + 1
                 /\ LoopCommit(t, [tasks[t] EXCEPT !.live_abs_path = nfiles + 1,
                                                   !.pc = "detect"],
                               sessions, disk \cup {nfiles + 1}, latest_inference_live)
            ELSE /\ UNCHANGED nfiles
                 /\ LoopCommit(t, GrabFailed(tasks[t]), sessions, disk, latest_inference_live)
    /\ raised' = "none"
    /\ UNCHANGED <<sampling_tasks, inference_tasks, waiters, stop_all, frames, detection_rows, last_inferred_frame_id,
                   restarts, limits, call,
                   deployments, last_capture_at>>

\* a snapshot that would carry the tick id of the tick before (tests SnapshotEveryTick)
SnapshotKeepsTick(tk, dets) ==
    [tick_id |-> tk.live_tick_id, file_path |-> tk.live_abs_path, detections |-> dets]

\* lines 284-292: the tick's snapshot
Snapshot(tk, dets) ==
    [tick_id |-> tk.live_tick_id + 1, file_path |-> tk.live_abs_path, detections |-> dets]

\* a session update that would not write the count (tests EndToEndTick)
keep_frames_processed(ss, id, n) == ss

\* lines 345-350: frames_processed written to the loop's session row
write_frames_processed(ss, id, n) ==
    IF id \in DOMAIN ss THEN [ss EXCEPT ![id].frames_processed = n] ELSE ss

\* how a detection pass ends: with the boxes of the model, without having
\* found the frame file (line 87), or with an exception inside the pass
DetectOutcomes == {"detections", "missing", "error"}

\* run_inference_on_frame, lines 84-125: the boxes of the model, suppressed; an
\* empty list when the file is not there or when the pass raises
run_inference_on_frame(raw, outcome) ==
    IF outcome = "missing" THEN <<>>
    ELSE IF outcome = "error" THEN <<>>
    ELSE suppress_overlapping_detections(raw, DETECTION_SUPPRESSION_IOU_THRESHOLD)

\* lines 297-299: the sampling columns of the projects row, or their defaults.
\* Null and zero are both 0 here; no projects row of the model has a threshold 0.
auto_sample_interval(project) ==
    IF project.auto_sample_interval_seconds # None
    THEN project.auto_sample_interval_seconds ELSE AUTO_SAMPLE_INTERVAL_SECONDS

low_threshold(project) ==
    IF project.low_confidence_threshold # None
    THEN project.low_confidence_threshold ELSE LOW_CONFIDENCE_SAMPLE_THRESHOLD

high_threshold(project) ==
    IF project.high_confidence_threshold # None
    THEN project.high_confidence_threshold ELSE HIGH_CONFIDENCE_SAMPLE_THRESHOLD

\* The clock.  time.monotonic() never goes back: a reading is not below any
\* reading kept in a loop or in the store.  The model has one clock: the
\* captured_at of a frames row is the reading of the tick that persisted it.
TimesKept ==
    {tasks[t].now : t \in TaskIds} \cup {tasks[t].last_sampled_at : t \in TaskIds}
        \cup {frames[i].captured_at : i \in DOMAIN frames}

Readings == {r \in limits.clock : \A x \in TimesKept : r >= x}

\* lines 301-316: the Frame row of a sampled tick
Frame(tk, now) ==
    [project_id |-> tk.project_id, file_path |-> tk.live_abs_path,
     source |-> "inference", captured_at |-> now]

\* a persist branch that would write no detections rows (tests FrameAndDetectionsTogether)
persist_no_detections(rows, frame_id, dets, model_version) == rows

\* lines 318-329: one detections row per detection of the tick, with the id of
\* the model version the tick read as active
persist_detections(rows, frame_id, dets, model_version) ==
    rows \o [i \in DOMAIN dets |->
                [frame_id |-> frame_id, model_version_id |-> model_version,
                 class_name |-> dets[i].class_name,
                 confidence |-> dets[i].confidence, x |-> dets[i].x, y |-> dets[i].y,
                 width |-> dets[i].width, height |-> dets[i].height]]

\* what a tick can raise after the detection: the copy of the frame (line
\* 304, on a positive decision only) or the commit of line 336 fails
TickErrors == {"none", "copy", "commit"}

\* the tick of loop t after a detection pass that ended with the outcome, on
\* the boxes raw, at the monotonic time now, with the exception error.  A file
\* the pass did not find has been removed from outside the program since the
\* grab; the copy of line 304 then finds no file either.
DetectReturns(t, raw, outcome, now, error) ==
    LET tk == tasks[t]
        p == tk.project_id
        dets == run_inference_on_frame(raw, outcome)
        files == IF outcome = "missing" THEN disk \ {tk.live_abs_path} ELSE disk
        live == set_latest_inference_live(latest_inference_live, p, Snapshot(tk, dets))
        decision == should_sample_frame(dets, tk.last_sampled_at, now,
                        auto_sample_interval(limits.project),
                        low_threshold(limits.project),
                        high_threshold(limits.project))
        ticked == [tk EXCEPT !.live_tick_id = @ + 1, !.detections = dets,
                             !.now = now, !.should_sample = decision.sample,
                             !.tick_error = error, !.pc = "sleep"]
        sampled == [ticked EXCEPT !.last_sampled_at =
                                      IF decision.sample THEN now ELSE @]
        n == tk.frames_processed + 1
        frame_id == Len(frames) + 1
    IN  /\ error = "copy" => decision.sample
        /\ (outcome = "missing" /\ decision.sample) => error = "copy"
        /\ IF error = "copy"
           THEN /\ LoopCommit(t, ticked, sessions, files, live)
                /\ UNCHANGED <<frames, detection_rows, last_inferred_frame_id>>
           ELSE IF error = "commit"
           THEN /\ LoopCommit(t, sampled, sessions, files, live)
                /\ UNCHANGED <<frames, detection_rows, last_inferred_frame_id>>
           ELSE /\ IF decision.sample
                   THEN /\ frames' = Append(frames, Frame(tk, now))
                        /\ detection_rows' =
                               persist_detections(detection_rows, frame_id, dets, tk.model_version)
                        /\ last_inferred_frame_id' =
                               [last_inferred_frame_id EXCEPT ![p] = frame_id]
                   ELSE UNCHANGED <<frames, detection_rows, last_inferred_frame_id>>
                /\ LoopCommit(t, [sampled EXCEPT !.frames_processed = n,
                                                 !.latest_live_file = tk.live_abs_path],
                              write_frames_processed(sessions, tk.session_id, n),
                              files \ {tk.latest_live_file}, live)

\* run_inference_on_frame returns: lines 282-357.  The snapshot is published and
\* the sampling decision taken.  On a positive decision the frame is copied and
\* the Frame and Detection rows are added, _last_sampled_at is set, and the
\* commit of line 336 makes the rows visible together.  An exception leaves the
\* tick there and the rows are lost with the store session.  Otherwise
\* frames_processed is counted and written, the previous live file is deleted
\* and this tick's file becomes the latest.
InferenceAfterDetect(t) ==
    /\ tasks[t].kind = "inference"
    /\ tasks[t].pc = "detect"
    /\ IF tasks[t].must_cancel
       THEN /\ LoopCommit(t, Cancelled(tasks[t]), sessions, disk, latest_inference_live)
            /\ UNCHANGED <<frames, detection_rows, last_inferred_frame_id>>
       ELSE \E raw \in limits.detector, outcome \in limits.detect,
               now \in Readings, error \in TickErrors :
                DetectReturns(t, raw, outcome, now, error)
    /\ raised' = "none"
    /\ UNCHANGED <<sampling_tasks, inference_tasks, waiters, stop_all, nfiles, restarts,
                   limits, call,
                   deployments, last_capture_at>>

\* ------------------------------------------------------------------ stop_all
\* list(registry.keys()): the registered projects, in the order of the dict
Keys(registry) == {p \in Projects : registry[p] # None}

Orderings(S) ==
    {s \in [1..Cardinality(S) -> S] : \A i, j \in 1..Cardinality(S) : i # j => s[i] # s[j]}

RECURSIVE StopEach(_, _, _, _, _)
\* one for loop of stop_all over keys, run until a stop call suspends at
\* "await task" (awaiting names the task) or the keys are exhausted
StopEach(kind, keys, registry, live, tks) ==
    IF keys = <<>>
    THEN [keys |-> keys, registry |-> registry, live |-> live, tasks |-> tks,
          awaiting |-> None]
    ELSE IF MustAwait(registry, tks, Head(keys))
    THEN [keys |-> keys, registry |-> registry, live |-> live,
          tasks |-> Cancel(tks, registry[Head(keys)]), awaiting |-> registry[Head(keys)]]
    ELSE IF kind = "sampling"
    THEN StopEach(kind, Tail(keys), PopSampling(registry, Head(keys)), live, tks)
    ELSE StopEach(kind, Tail(keys), PopInference(registry, Head(keys)),
                  PopLive(live, Head(keys)), tks)

\* lines 78-79: the loop over the inference registry, then the return
StopAllInference(keys, registry, live, tks, registered) ==
    LET r == StopEach("inference", keys, registry, live, tks)
    IN  /\ inference_tasks' = r.registry
        /\ latest_inference_live' = r.live
        /\ tasks' = r.tasks
        /\ IF r.awaiting # None
           THEN /\ stop_all' = [phase |-> "inference", keys |-> r.keys,
                                awaiting |-> r.awaiting, registered |-> registered]
                /\ raised' = "none"
           ELSE /\ stop_all' = [phase |-> "returned", keys |-> <<>>, awaiting |-> None,
                                registered |-> registered]
                /\ raised' = "none"

\* lines 76-77: the loop over the sampling registry; when it is through, the
\* keys of the inference registry are listed and its loop begins
StopAllSampling(keys, registry, live, tks, registered) ==
    LET r == StopEach("sampling", keys, registry, live, tks)
    IN  /\ sampling_tasks' = r.registry
        /\ IF r.awaiting # None
           THEN /\ stop_all' = [phase |-> "sampling", keys |-> r.keys,
                                awaiting |-> r.awaiting, registered |-> registered]
                /\ tasks' = r.tasks
                /\ raised' = "none"
                /\ UNCHANGED <<inference_tasks, latest_inference_live>>
           ELSE \E ks \in Orderings(Keys(inference_tasks)) :
                StopAllInference(ks, inference_tasks, r.live, r.tasks, registered)

\* the lifespan leaves its yield and calls stop_all (main.py line 25): the
\* server has finished its requests, so no manager call is in flight and none
\* begins.  registered keeps the tasks that were registered at the call.
StopAllBegin ==
    /\ Serving
    /\ \A t \in TaskIds : waiters[t] = 0
    /\ \E ks \in Orderings(Keys(sampling_tasks)) :
       StopAllSampling(ks, sampling_tasks, latest_inference_live, tasks,
                       {sampling_tasks[p] : p \in Keys(sampling_tasks)}
                       \cup {inference_tasks[p] : p \in Keys(inference_tasks)})
    /\ UNCHANGED <<waiters, sessions, frames, detection_rows, last_inferred_frame_id, disk, nfiles, restarts, limits, call,
                   deployments, last_capture_at>>

\* the stop call inside stop_all resumes from "await task", pops, and the for
\* loop goes on; an exception of the task other than CancelledError leaves stop_all
StopAllResumes ==
    /\ stop_all.phase \in {"sampling", "inference"}
    /\ AwaitCompletes(tasks[stop_all.awaiting])
    /\ LET p == Head(stop_all.keys)
       IN  IF tasks[stop_all.awaiting].pc = "error"
           THEN /\ stop_all' = [stop_all EXCEPT !.phase = "returned", !.awaiting = None]
                /\ raised' = "stop_all"
                /\ UNCHANGED <<tasks, sampling_tasks, inference_tasks, latest_inference_live>>
           ELSE IF stop_all.phase = "sampling"
           THEN StopAllSampling(Tail(stop_all.keys), PopSampling(sampling_tasks, p),
                                latest_inference_live, tasks, stop_all.registered)
           ELSE /\ StopAllInference(Tail(stop_all.keys), PopInference(inference_tasks, p),
                                    PopLive(latest_inference_live, p), tasks,
                                    stop_all.registered)
                /\ UNCHANGED sampling_tasks
    /\ UNCHANGED <<waiters, sessions, frames, detection_rows, last_inferred_frame_id, disk, nfiles, restarts, limits, call,
                   deployments, last_capture_at>>

\* -------------------------------------------------------------- environment
\* the process ends, by a crash at any point or by its exit after stop_all, and
\* is started again: the module-level WorkerManager() is a new object (manager.py
\* line 83), the tasks of the old event loop are gone without any cleanup, the
\* durable store and the files stay
ProcessRestart ==
    /\ restarts < limits.restarts
    /\ restarts' = restarts + 1
    /\ tasks' = [t \in TaskIds |-> IF tasks[t].pc = "unborn" THEN NoTask ELSE KilledTask]
    /\ sampling_tasks' = [p \in Projects |-> None]
    /\ inference_tasks' = [p \in Projects |-> None]
    /\ latest_inference_live' = [p \in Projects |-> NoSnapshot]
    /\ waiters' = [t \in TaskIds |-> 0]
    /\ stop_all' = IdleStopAll
    /\ raised' = "none"
    /\ UNCHANGED <<sessions, frames, detection_rows, last_inferred_frame_id, disk, nfiles, limits, call,
                   deployments, last_capture_at>>

\* ------------------------------------------------------------ specification
Next ==
    \/ \E p \in limits.projects : StartSampling(p)
    \/ \E p \in limits.projects : StartInference(p)
    \/ \E p \in limits.projects : StopSampling(p)
    \/ \E p \in limits.projects : StopInference(p)
    \/ \E t \in TaskIds : StopResumes(t)
    \/ StopAllBegin
    \/ StopAllResumes
    \/ \E t \in TaskIds : InferenceLoopStart(t)
    \/ \E t \in TaskIds : InferenceAfterSleep(t)
    \/ \E t \in TaskIds : InferenceAfterResolve(t)
    \/ \E t \in TaskIds : InferenceAfterGrab(t)
    \/ \E t \in TaskIds : InferenceAfterDetect(t)
    \/ ProcessRestart

Spec == Init /\ [][Next]_vars

SpecTwoProjects == InitTwoProjects /\ [][Next]_vars

SpecTicks == InitTicks /\ [][Next]_vars

SpecTwoVersions == InitTwoVersions /\ [][Next]_vars

SpecTwoModels == InitTwoModels /\ [][Next]_vars

SpecFailingDetector == InitFailingDetector /\ [][Next]_vars

SpecTwoRuns == InitTwoRuns /\ [][Next]_vars

\* ------------------------------------------------- calls of pure functions
\* The arguments the pure functions of workers/inference.py are called with.
BoxXs == {1, 2, 3}
BoxYs == {2, 3}
BoxWidths == {0, 2, 4}
BoxHeights == {2, 4}

Boxes == [x : BoxXs, y : BoxYs, width : BoxWidths, height : BoxHeights]

\* a box, its left half, its right half, the same box under another class with
\* the same confidence, and the box shifted down by a quarter
OverlappingDetections ==
    {Detection("a", 900, 2, 2, 4, 4), Detection("b", 800, 1, 2, 2, 4),
     Detection("a", 700, 3, 2, 2, 4), Detection("b", 900, 2, 2, 4, 4),
     Detection("a", 800, 2, 3, 4, 4)}

IoUThresholds == {<<0, 1>>, <<1, 4>>, DETECTION_SUPPRESSION_IOU_THRESHOLD}

MaxDetections == 3

SeqsUpTo(S, n) == UNION {[1..k -> S] : k \in 0..n}

\* confidences around the default thresholds
Confidences == {299, 300, 450, 500, 700, 701, 900}

ConfidenceLists ==
    {[i \in DOMAIN cs |-> Detection("a", cs[i], 2, 2, 4, 4)] :
        cs \in SeqsUpTo(Confidences, MaxDetections - 1)}

Bands == {<<LOW_CONFIDENCE_SAMPLE_THRESHOLD, HIGH_CONFIDENCE_SAMPLE_THRESHOLD>>, <<450, 500>>}

ClockReadings == {0, 100, 599, 600, 700}

IoUCalls == [fn : {"iou_xywh"}, first : Boxes, second : Boxes, done : {FALSE}]

SuppressCalls ==
    [fn : {"suppress_overlapping_detections"},
     detections : SeqsUpTo(OverlappingDetections, MaxDetections),
     iou_threshold : IoUThresholds, done : {FALSE}, again : {FALSE}]

SampleCalls ==
    {c \in [fn : {"should_sample_frame"}, detections : ConfidenceLists,
            last_sampled_at : {0, 100}, now : ClockReadings,
            auto_sample_interval : {AUTO_SAMPLE_INTERVAL_SECONDS},
            band : Bands, done : {FALSE}] : c.now >= c.last_sampled_at}

InitFunctions == InitState(OneProject, {<<>>}, IoUCalls \cup SuppressCalls \cup SampleCalls)

Returns(result) ==
    /\ ~call.done
    /\ call' = [k \in DOMAIN call \cup {"result"} |->
                   IF k = "result" THEN result ELSE IF k = "done" THEN TRUE ELSE call[k]]
    /\ UNCHANGED <<tasks, sampling_tasks, inference_tasks, latest_inference_live, waiters,
                   stop_all, sessions, frames, detection_rows, last_inferred_frame_id, disk, nfiles, restarts, limits, raised,
                   deployments, last_capture_at>>

CallIoU ==
    /\ call.fn = "iou_xywh"
    /\ Returns(iou_xywh(call.first, call.second))

CallSuppress ==
    /\ call.fn = "suppress_overlapping_detections"
    /\ Returns(suppress_overlapping_detections(call.detections, call.iou_threshold))

\* the suppression applied to its own output
CallSuppressAgain ==
    /\ call.fn = "suppress_overlapping_detections"
    /\ call.done /\ ~call.again
    /\ call' = [k \in DOMAIN call \cup {"result2"} |->
                   IF k = "result2"
                   THEN suppress_overlapping_detections(call.result, call.iou_threshold)
                   ELSE IF k = "again" THEN TRUE ELSE call[k]]
    /\ UNCHANGED <<tasks, sampling_tasks, inference_tasks, latest_inference_live, waiters,
                   stop_all, sessions, frames, detection_rows, last_inferred_frame_id, disk, nfiles, restarts, limits, raised,
                   deployments, last_capture_at>>

CallShouldSample ==
    /\ call.fn = "should_sample_frame"
    /\ Returns(should_sample_frame(call.detections, call.last_sampled_at, call.now,
                                   call.auto_sample_interval, call.band[1], call.band[2]))

NextFunctions == CallIoU \/ CallSuppress \/ CallSuppressAgain \/ CallShouldSample

SpecFunctions == InitFunctions /\ [][NextFunctions]_vars

\* ------------------------------------------------------------ capture_loop
\* start_sampling cannot create the loop of capture.py (sample_loop_defined),
\* so the runs of capture_loop start from a task made of it directly,
\* asyncio.create_task(capture_loop(project_id)), and registered as the
\* project's sampling task.  An inference loop runs beside it.
CaptureRun ==
    [projects |-> {1}, tasks |-> {1, 2}, files |-> MaxFiles + 1,
     restarts |-> MaxRestarts, waiters |-> MaxWaiters,
     detector |-> {<<Detection("a", 450, 2, 2, 4, 4)>>},
     clock |-> {600, 700}, project |-> DefaultSettings,
     versions |-> {1}, weights |-> {1}, ticks |-> TickInputs,
     detect |-> {"detections"}]

\* One capture loop and one inference loop that are stopped while they run
StoppedRun ==
    [projects |-> {1}, tasks |-> {1, 2}, files |-> MaxFiles,
     restarts |-> MaxRestarts, waiters |-> MaxWaiters,
     detector |-> {<<>>}, clock |-> {600}, project |-> DefaultSettings,
     versions |-> {1}, weights |-> {1}, ticks |-> {"deployed"},
     detect |-> {"detections"}]

InitCaptureWith(l) ==
    /\ limits = l
    /\ tasks = [t \in TaskIds |-> IF t = 1 THEN NewTask("capture", 1) ELSE NoTask]
    /\ sampling_tasks = [p \in Projects |-> IF p = 1 THEN 1 ELSE None]
    /\ inference_tasks = [p \in Projects |-> None]
    /\ latest_inference_live = [p \in Projects |-> NoSnapshot]
    /\ waiters = [t \in TaskIds |-> 0]
    /\ stop_all = IdleStopAll
    /\ sessions = <<>>
    /\ frames = <<>>
    /\ detection_rows = <<>>
    /\ last_inferred_frame_id = [p \in Projects |-> None]
    /\ disk = {}
    /\ nfiles = 0
    /\ restarts = 0
    /\ call = NoCall
    /\ raised = "none"
    /\ deployments = <<>>
    /\ last_capture_at = [p \in Projects |-> None]

InitCapture == InitCaptureWith(CaptureRun)

InitStoppedRun == InitCaptureWith(StoppedRun)

\* what a tick of capture_loop finds at its start
CaptureInputs == {"store_error", "missing", "go"}

\* the head of an iteration of capture_loop, lines 84-95, up to the await of
\* resolve_stream_url: every tick resolves the stream.  A store error before
\* "interval" is first bound makes the sleep raise UnboundLocalError.
EnterCaptureTick(tk, c) ==
    IF c = "store_error"
    THEN [tk EXCEPT !.pc = IF tk.interval_set THEN "sleep" ELSE "error"]
    ELSE IF c = "missing"
    THEN [tk EXCEPT !.pc = "returned"]
    ELSE [tk EXCEPT !.interval_set = TRUE, !.pc = "resolve"]

\* capture_loop has no finally block of its own: a step that leaves the loop
\* leaves the task done
CaptureCommit(t, tk) ==
    tasks' = [tasks EXCEPT ![t] = IF Done(tk) THEN DoneTask(tk, tk.pc) ELSE tk]

CaptureUnchanged ==
    UNCHANGED <<sampling_tasks, inference_tasks, latest_inference_live, waiters, stop_all,
                sessions, detection_rows, last_inferred_frame_id, disk, nfiles, restarts,
                limits, call, deployments>>

\* the first step of the task, lines 81-95
CaptureLoopStart(t) ==
    /\ tasks[t].kind = "capture"
    /\ tasks[t].pc = "created"
    /\ IF tasks[t].must_cancel
       THEN tasks' = [tasks EXCEPT ![t] = DoneTask(tasks[t], "cancelled")]
       ELSE \E c \in CaptureInputs : CaptureCommit(t, EnterCaptureTick(tasks[t], c))
    /\ raised' = "none"
    /\ UNCHANGED <<frames, last_capture_at>>
    /\ CaptureUnchanged

\* asyncio.sleep(interval) is over, or is cancelled: lines 130-134, then the next tick
CaptureAfterSleep(t) ==
    /\ tasks[t].kind = "capture"
    /\ tasks[t].pc = "sleep"
    /\ IF tasks[t].must_cancel
       THEN CaptureCommit(t, Cancelled(tasks[t]))
       ELSE \E c \in CaptureInputs : CaptureCommit(t, EnterCaptureTick(tasks[t], c))
    /\ raised' = "none"
    /\ UNCHANGED <<frames, last_capture_at>>
    /\ CaptureUnchanged

\* resolve_stream_url returns: lines 95-104; the timestamp of the tick is taken
CaptureAfterResolve(t) ==
    /\ tasks[t].kind = "capture"
    /\ tasks[t].pc = "resolve"
    /\ IF tasks[t].must_cancel
       THEN CaptureCommit(t, Cancelled(tasks[t]))
       ELSE \E resolved \in BOOLEAN, timestamp \in Readings :
            CaptureCommit(t, IF resolved
                             THEN [tasks[t] EXCEPT !.stream_url = TRUE, !.now = timestamp,
                                                   !.pc = "grab"]
                             ELSE [tasks[t] EXCEPT !.stream_url = FALSE, !.pc = "sleep"])
    /\ raised' = "none"
    /\ UNCHANGED <<frames, last_capture_at>>
    /\ CaptureUnchanged

\* lines 106-114: the Frame row of a captured frame; its file is named by the timestamp
CaptureFrame(tk) ==
    [project_id |-> tk.project_id, file_path |-> tk.now,
     source |-> "capture", captured_at |-> tk.now]

CaptureErrors == {"none", "commit"}

\* a commit that would write the Frame row without the project's timestamp
\* (tests NoPartialWrite)
keep_last_capture_at(last, tk) == last

\* line 116: project.last_capture_at = timestamp
write_last_capture_at(last, tk) == [last EXCEPT ![tk.project_id] = tk.now]

\* capture_frame returns: lines 104-120.  The Frame row and last_capture_at are
\* written by one commit; a commit that raises writes neither.
CaptureAfterGrab(t) ==
    /\ tasks[t].kind = "capture"
    /\ tasks[t].pc = "grab"
    /\ IF tasks[t].must_cancel
       THEN /\ CaptureCommit(t, Cancelled(tasks[t]))
            /\ UNCHANGED <<frames, last_capture_at>>
       ELSE \E success \in BOOLEAN, error \in CaptureErrors :
            /\ CaptureCommit(t, [tasks[t] EXCEPT !.pc = "sleep"])
            /\ IF success /\ error = "none"
               THEN /\ Len(frames) < limits.files
                    /\ frames' = Append(frames, CaptureFrame(tasks[t]))
                    /\ last_capture_at' = write_last_capture_at(last_capture_at, tasks[t])
               ELSE UNCHANGED <<frames, last_capture_at>>
    /\ raised' = "none"
    /\ CaptureUnchanged

NextCapture ==
    \/ Next
    \/ \E t \in TaskIds : CaptureLoopStart(t)
    \/ \E t \in TaskIds : CaptureAfterSleep(t)
    \/ \E t \in TaskIds : CaptureAfterResolve(t)
    \/ \E t \in TaskIds : CaptureAfterGrab(t)

SpecCapture == InitCapture /\ [][NextCapture]_vars

\* the event loop runs a task that is ready: a loop whose await has completed
\* or has been cancelled takes its next step
LoopRuns(t) ==
    \/ InferenceLoopStart(t)
    \/ InferenceAfterSleep(t)
    \/ InferenceAfterResolve(t)
    \/ InferenceAfterGrab(t)
    \/ InferenceAfterDetect(t)
    \/ CaptureLoopStart(t)
    \/ CaptureAfterSleep(t)
    \/ CaptureAfterResolve(t)
    \/ CaptureAfterGrab(t)

\* the steps of a process that is not killed
NextServing ==
    \/ \E p \in limits.projects : StartSampling(p)
    \/ \E p \in limits.projects : StartInference(p)
    \/ \E p \in limits.projects : StopSampling(p)
    \/ \E p \in limits.projects : StopInference(p)
    \/ \E t \in TaskIds : StopResumes(t)
    \/ StopAllBegin
    \/ StopAllResumes
    \/ \E t \in TaskIds : LoopRuns(t)

\* The event loop is fair to every task that is ready: a loop at an await that
\* has completed or been cancelled, and a stop call whose awaited task is done.
FairSpec ==
    /\ InitStoppedRun
    /\ [][NextServing]_vars
    /\ \A t \in TaskIds : WF_vars(LoopRuns(t))
    /\ \A t \in TaskIds : WF_vars(StopResumes(t))

\* ------------------------------------------------------------ deployments
\* The model_versions table: ids 1 and 2 belong to project 1, id 3 to project 2;
\* id 4 is not in the table.
ModelVersionIds == {1, 2, 3}
UnknownModelVersionIds == {4}
MaxDeployments == 4

ModelVersionProject(mv_id) == IF mv_id = 3 THEN 2 ELSE 1

Deployment(project_id, model_version_id) ==
    [project_id |-> project_id, model_version_id |-> model_version_id, is_active |-> TRUE]

deactivate_none(rows, project_id) == rows

\* query(Deployment).filter(project_id == ..., is_active == True).update({"is_active": False})
deactivate_active(rows, project_id) ==
    [i \in 1..Len(rows) |->
        IF rows[i].project_id = project_id /\ rows[i].is_active
        THEN [rows[i] EXCEPT !.is_active = FALSE]
        ELSE rows[i]]

DeployUnchanged ==
    UNCHANGED <<tasks, sampling_tasks, inference_tasks, latest_inference_live, waiters,
                stop_all, sessions, frames, detection_rows, last_inferred_frame_id, disk,
                nfiles, restarts, limits, call, last_capture_at>>

\* POST /models/{mv_id}/deploy: the handler has no await, the request is one step
deploy_model(mv_id) ==
    /\ Len(deployments) < MaxDeployments
    /\ IF mv_id \notin ModelVersionIds
       THEN /\ raised' = "deploy_model"
            /\ UNCHANGED deployments
       ELSE /\ raised' = "none"
            /\ deployments' =
                   Append(deactivate_active(deployments, ModelVersionProject(mv_id)),
                          Deployment(ModelVersionProject(mv_id), mv_id))
    /\ DeployUnchanged

InitDeployments == InitWith(TwoProjects, {<<>>})

NextDeployments ==
    \E mv_id \in ModelVersionIds \cup UnknownModelVersionIds : deploy_model(mv_id)

SpecDeployments == InitDeployments /\ [][NextDeployments]_vars

\* ------------------------------------------------ the live snapshot objects
\* Python objects have identity.  A snapshot is a dict whose "detections" is a
\* list object; here the entry of _latest_inference_live holds the dict by
\* value and the list by reference (its id on the heap call.lists).  dict(snap)
\* copies the dict and shares the list.  call.returned is the dict a caller got
\* from get_latest_inference_live, call.written what the last
\* set_latest_inference_live stored, with the list contents of that moment.
ListIds == {1, 2}
ListItems == {"a", "b"}
MaxListLen == 2
LiveTickIds == {1, 2}

NoObjects ==
    [fn |-> "get_latest_inference_live", lists |-> [l \in ListIds |-> <<>>],
     returned |-> NoSnapshot, written |-> NoSnapshot]

InitSnapshots == InitState(OneProject, {<<>>}, {NoObjects})

\* the dict with its list contents in place of the reference
Deref(snap) ==
    IF snap.tick_id = 0 THEN NoSnapshot
    ELSE [snap EXCEPT !.detections = call.lists[snap.detections]]

LiveUnchanged ==
    UNCHANGED <<tasks, sampling_tasks, inference_tasks, waiters, stop_all, sessions,
                frames, detection_rows, last_inferred_frame_id, disk, nfiles, restarts,
                limits, raised, deployments, last_capture_at>>

\* the loop publishes a snapshot: a new dict with a new list (lines 284-292)
LivePublish(p) ==
    \E l \in ListIds, k \in LiveTickIds, items \in SeqsUpTo(ListItems, MaxListLen) :
        /\ latest_inference_live[p].tick_id # 0 => l # latest_inference_live[p].detections
        /\ call.returned.tick_id # 0 => l # call.returned.detections
        /\ latest_inference_live' =
               set_latest_inference_live(latest_inference_live, p,
                   [tick_id |-> k, file_path |-> None, detections |-> l])
        /\ call' = [call EXCEPT !.lists[l] = items,
                                !.written = [tick_id |-> k, file_path |-> None,
                                             detections |-> items]]
        /\ LiveUnchanged

\* set_latest_inference_live(project_id, None)
LiveClear(p) ==
    /\ latest_inference_live[p].tick_id # 0
    /\ latest_inference_live' = set_latest_inference_live(latest_inference_live, p, NoSnapshot)
    /\ call' = [call EXCEPT !.written = NoSnapshot]
    /\ LiveUnchanged

\* a caller calls get_latest_inference_live(project_id) and keeps the result
LiveGet(p) ==
    /\ call' = [call EXCEPT !.returned = get_latest_inference_live(p)]
    /\ UNCHANGED latest_inference_live
    /\ LiveUnchanged

\* the caller assigns to a key of the dict it got
CallerSetsKey ==
    /\ call.returned.tick_id \in LiveTickIds
    /\ call' = [call EXCEPT !.returned.file_path = 1]
    /\ UNCHANGED latest_inference_live
    /\ LiveUnchanged

\* the caller appends to the detections list of the dict it got
CallerAppends ==
    /\ call.returned.tick_id # 0
    /\ Len(call.lists[call.returned.detections]) < MaxListLen
    /\ \E item \in ListItems :
           call' = [call EXCEPT !.lists[call.returned.detections] = Append(@, item)]
    /\ UNCHANGED latest_inference_live
    /\ LiveUnchanged

NextSnapshots ==
    \/ \E p \in limits.projects : LivePublish(p)
    \/ \E p \in limits.projects : LiveClear(p)
    \/ \E p \in limits.projects : LiveGet(p)
    \/ CallerSetsKey
    \/ CallerAppends

SpecSnapshots == InitSnapshots /\ [][NextSnapshots]_vars

\* ------------------------------------------------------------------ properties
\* the loops of a kind that execute for project p
Loops(kind, p) ==
    {t \in TaskIds : /\ tasks[t].kind = kind
                     /\ tasks[t].project_id = p
                     /\ Executing(tasks[t])}

\* C1: at most one InferenceWorker loop and at most one CaptureWorker loop of a
\* project is executing at any time.
AtMostOneLoopPerProject ==
    \A p \in Projects : \A kind \in {"sampling", "inference"} :
        Cardinality(Loops(kind, p)) <= 1

\* C2: a start call on a project whose loop is registered and not finished
\* spawns nothing and leaves the registries, the tasks and the live snapshot
\* unchanged; a start call on a project that is not running spawns and
\* registers exactly one task, after which the project is running.  For
\* start_inference and for start_sampling.
Spawned == {t \in TaskIds : tasks[t].pc = "unborn" /\ tasks'[t].pc # "unborn"}

StartIsIdempotent ==
    [][\A p \in Projects :
        /\ StartInference(p) =>
              IF is_inference_running(p)
              THEN UNCHANGED <<tasks, sampling_tasks, inference_tasks, latest_inference_live>>
              ELSE /\ Cardinality(Spawned) = 1
                   /\ inference_tasks'[p] \in Spawned
                   /\ is_running(inference_tasks', tasks', p)
        /\ StartSampling(p) =>
              IF is_sampling_running(p)
              THEN UNCHANGED <<tasks, sampling_tasks, inference_tasks, latest_inference_live>>
              ELSE /\ Cardinality(Spawned) = 1
                   /\ sampling_tasks'[p] \in Spawned
                   /\ is_running(sampling_tasks', tasks', p)]_vars

\* a step in which a stop_inference(p) call returns normally: at once, after
\* its await, or as the stop call that stop_all was suspended in
StopInferenceReturns(p) ==
    \/ StopInference(p) /\ ~MustAwait(inference_tasks, tasks, p)
    \/ \E t \in TaskIds : /\ tasks[t].kind = "inference"
                          /\ tasks[t].project_id = p
                          /\ StopResumes(t)
                          /\ raised' = "none"
    \/ /\ stop_all.phase = "inference"
       /\ Head(stop_all.keys) = p
       /\ StopAllResumes
       /\ raised' = "none"

\* C3: at the moment a stop_inference(p) call returns normally,
\* is_inference_running(p) is false and get_latest_inference_live(p) is None.
StopInferenceLeavesStopped ==
    [][\A p \in Projects :
        StopInferenceReturns(p) =>
            /\ ~is_running(inference_tasks', tasks', p)
            /\ latest_inference_live'[p] = NoSnapshot]_vars

\* a stop_inference call that cancelled a loop and awaited it has returned:
\* the cancelled loop had run, nothing waits on it, the registry entry is gone
StopInferenceHasReturned ==
    \E t \in TaskIds :
        /\ tasks[t].pc = "cancelled"
        /\ tasks[t].session_id # None
        /\ tasks[t].live_abs_path # None
        /\ waiters[t] = 0
        /\ stop_all.phase = "idle"
        /\ inference_tasks[tasks[t].project_id] = None
        /\ latest_inference_live[tasks[t].project_id] = NoSnapshot

\* the session row of loop tk is closed (a loop that never ran opened none)
SessionClosed(ss, tk) == tk.session_id # None => ss[tk.session_id].stopped_at # None

\* C4: when a stop_inference call that cancelled a running loop returns, the
\* session opened by that loop has stopped_at set, the live snapshot of the
\* project is cleared and the last live file the loop wrote has been removed.
StopInferenceWaitsForCleanup ==
    [][\A t \in TaskIds :
        (tasks[t].kind = "inference" /\ StopResumes(t) /\ raised' = "none") =>
            /\ SessionClosed(sessions', tasks'[t])
            /\ latest_inference_live'[tasks[t].project_id] = NoSnapshot
            /\ tasks[t].live_abs_path \notin disk']_vars

\* C5: stop_inference and stop_sampling never raise; on a project with no
\* registered task they change nothing; on a project whose registered task
\* has finished they return without awaiting and the registry entry is gone.
StopToleratesFinished ==
    [][/\ raised' \notin {"stop_sampling", "stop_inference"}
       /\ \A p \in Projects :
           /\ (StopInference(p) /\ inference_tasks[p] = None) =>
                 UNCHANGED <<tasks, sampling_tasks, inference_tasks,
                             latest_inference_live, waiters>>
           /\ (StopSampling(p) /\ sampling_tasks[p] = None) =>
                 UNCHANGED <<tasks, sampling_tasks, inference_tasks,
                             latest_inference_live, waiters>>
           /\ (StopInference(p) /\ inference_tasks[p] # None
                   /\ Done(tasks[inference_tasks[p]])) =>
                 inference_tasks'[p] = None /\ UNCHANGED <<tasks, waiters>>
           /\ (StopSampling(p) /\ sampling_tasks[p] # None
                   /\ Done(tasks[sampling_tasks[p]])) =>
                 sampling_tasks'[p] = None /\ UNCHANGED <<tasks, waiters>>]_vars

\* C6: after stop_all has returned, no loop that was registered when it was
\* called is executing or scheduled, neither registry holds the project of
\* such a loop, and every such inference loop that ran has closed its session.
StopAllStopsRegistered ==
    (stop_all.phase = "returned" /\ raised = "none") =>
        \A t \in stop_all.registered :
            /\ Done(tasks[t])
            /\ sampling_tasks[tasks[t].project_id] = None
            /\ inference_tasks[tasks[t].project_id] = None
            /\ SessionClosed(sessions, tasks[t])

\* stop_all has returned after stopping the loops of two projects, one of
\* them cancelled while it ran and one that had already ended by itself
StopAllHasStoppedTwo ==
    /\ stop_all.phase = "returned"
    /\ \E t, u \in stop_all.registered :
        /\ tasks[t].project_id # tasks[u].project_id
        /\ tasks[t].pc = "cancelled" /\ tasks[t].session_id # None
        /\ tasks[u].pc \in {"returned", "error"}

\* the open session rows of project p
OpenSessions(ss, p) ==
    {i \in DOMAIN ss : ss[i].project_id = p /\ ss[i].stopped_at = None}

\* C7: in every state of the durable store each project has at most one
\* InferenceSession with stopped_at = null.
AtMostOneOpenSession ==
    \A p \in Projects : Cardinality(OpenSessions(sessions, p)) <= 1

\* after a restart a loop runs on a session of its own while an older session
\* row of the same project is closed
NewSessionAfterRestart ==
    /\ restarts > 0
    /\ \E t \in TaskIds :
        /\ Executing(tasks[t])
        /\ tasks[t].session_id \in OpenSessions(sessions, tasks[t].project_id)
        /\ \E i \in DOMAIN sessions :
            /\ i < tasks[t].session_id
            /\ sessions[i].project_id = tasks[t].project_id
            /\ sessions[i].stopped_at # None

\* C8: the first step of an inference loop for project p sets stopped_at on
\* every session row of p that was open, in the step that creates the new
\* row, and leaves the session rows of the other projects unchanged.
LoopStartClosesStale ==
    [][\A t \in TaskIds :
        (InferenceLoopStart(t) /\ ~tasks[t].must_cancel) =>
            /\ Len(sessions') = Len(sessions) + 1
            /\ sessions'[Len(sessions')].project_id = tasks[t].project_id
            /\ \A i \in DOMAIN sessions :
                IF sessions[i].project_id = tasks[t].project_id
                THEN sessions'[i].stopped_at # None
                ELSE sessions'[i] = sessions[i]]_vars

\* a loop of project 1 has started on a store with stale sessions: the stale
\* row of project 1 is closed, the stale row of project 2 is still open
StaleClosedOtherKept ==
    /\ Len(sessions) >= 3
    /\ sessions[1].project_id = 1 /\ sessions[1].stopped_at # None
    /\ sessions[2].project_id = 2 /\ sessions[2].stopped_at = None
    /\ sessions[3].project_id = 1
    /\ \A t \in TaskIds : tasks[t].project_id # 2

\* C9: an inference loop that has opened a session runs its cleanup on every
\* way out: in the step in which it ends, by a cancellation at any of its
\* awaits or by itself, its session gets stopped_at set and the live snapshot
\* of its project is cleared.
LoopExitRunsCleanup ==
    [][\A t \in TaskIds :
        (tasks[t].pc \in Suspended \cup {"created"} /\ Done(tasks'[t])
            /\ tasks'[t].session_id # None) =>
            /\ sessions'[tasks'[t].session_id].stopped_at # None
            /\ latest_inference_live'[tasks[t].project_id] = NoSnapshot]_vars

\* loops have ended by a cancellation during the detection await (a frame
\* grabbed, no tick counted), by themselves, and with an error
LoopsHaveExited ==
    /\ \E t \in TaskIds : /\ tasks[t].pc = "cancelled"
                          /\ tasks[t].live_abs_path # None
                          /\ sessions[tasks[t].session_id].frames_processed = 0
    /\ \E t \in TaskIds : tasks[t].pc = "returned" /\ tasks[t].session_id # None
    /\ \E t \in TaskIds : tasks[t].pc = "error" /\ tasks[t].session_id # None

\* C10: the live snapshot of a project is non-none only while its
\* InferenceWorker is running: get_latest_inference_live(p) # None implies
\* is_inference_running(p).
SnapshotOnlyWhileRunning ==
    \A p \in Projects :
        get_latest_inference_live(p) # NoSnapshot => is_inference_running(p)

\* the call of should_sample_frame under check has returned
Sampled == call.fn = "should_sample_frame" /\ call.done

\* the detections of the call whose confidence lies in the closed band
Uncertain == {i \in DOMAIN call.detections :
                 /\ call.band[1] <= call.detections[i].confidence
                 /\ call.detections[i].confidence <= call.band[2]}

\* the hundredth nearest to a confidence in thousandths
TwoDecimals(conf) == CHOOSE h \in 0..100 : 10 * h - 5 < conf /\ conf < 10 * h + 5

\* C11: the sampling decision equals the reference rule: sample with the
\* uncertain-confidence reason carrying the two-decimal confidence of the first
\* detection whose confidence lies in [low, high]; otherwise sample with the auto
\* reason iff elapsed >= auto interval; otherwise do not sample.  [0.5] with
\* low 0.3, high 0.7, elapsed 0 samples with 0.50; [0.9] with elapsed 0 does not
\* sample; an empty list samples iff elapsed >= auto interval.
SamplingDecisionIsReference ==
    Sampled =>
        LET elapsed == call.now - call.last_sampled_at
            defaults == call.band = <<300, 700>>
            confs == [i \in DOMAIN call.detections |-> call.detections[i].confidence]
        IN  /\ IF Uncertain # {}
               THEN LET first == CHOOSE i \in Uncertain : \A j \in Uncertain : i <= j
                    IN  /\ call.result.sample
                        /\ call.result.reason = "uncertain_confidence"
                        /\ call.result.conf = TwoDecimals(confs[first])
               ELSE IF elapsed >= call.auto_sample_interval
               THEN call.result.sample /\ call.result.reason = "auto_sample"
               ELSE ~call.result.sample
            /\ (confs = <<500>> /\ defaults /\ elapsed = 0) =>
                    call.result.sample /\ call.result.conf = 50
            /\ (confs = <<900>> /\ defaults /\ elapsed = 0) => ~call.result.sample
            /\ confs = <<>> =>
                    (call.result.sample <=> elapsed >= call.auto_sample_interval)

\* a detection on the low threshold itself, behind one below the band, has
\* decided the sampling before the auto interval has passed
SampledOnLowThreshold ==
    /\ Sampled
    /\ Len(call.detections) = 2
    /\ call.detections[1].confidence = 299
    /\ call.detections[2].confidence = 300
    /\ call.band = <<300, 700>>
    /\ call.now - call.last_sampled_at < call.auto_sample_interval
    /\ call.result = [sample |-> TRUE, reason |-> "uncertain_confidence", conf |-> 30]

\* the call of _suppress_overlapping_detections under check has returned
Suppressed == call.fn = "suppress_overlapping_detections" /\ call.done

\* how often detection d occurs in list L
Count(L, d) == Cardinality({i \in DOMAIN L : L[i] = d})

\* C13: the output of overlap suppression is a sub-collection of its input (no
\* detection is created or altered) and contains no two detections whose IoU is
\* greater than the threshold, whatever their class names.
SuppressionKeepsNoOverlap ==
    Suppressed =>
        /\ \A i \in DOMAIN call.result :
              Count(call.result, call.result[i]) <= Count(call.detections, call.result[i])
        /\ \A i, j \in DOMAIN call.result :
              i # j => FracLeq(iou_xywh(call.result[i], call.result[j]), call.iou_threshold)

\* of two detections of different classes on the same box one has been suppressed
SuppressedAcrossClasses ==
    /\ Suppressed
    /\ Len(call.detections) = 2
    /\ call.detections[1].class_name # call.detections[2].class_name
    /\ call.detections[1].x = call.detections[2].x
    /\ call.detections[1].width = call.detections[2].width
    /\ call.detections[1].y = call.detections[2].y
    /\ call.detections[1].height = call.detections[2].height
    /\ call.iou_threshold = DETECTION_SUPPRESSION_IOU_THRESHOLD
    /\ call.result = <<call.detections[1]>>

Range(L) == {L[i] : i \in DOMAIN L}

\* C14: overlap suppression is idempotent: applied to its own output it yields
\* the same set of detections.
SuppressionIsIdempotent ==
    (call.fn = "suppress_overlapping_detections" /\ call.done /\ call.again) =>
        Range(call.result2) = Range(call.result)

\* the suppression has run twice on three detections of which the first pass
\* dropped two
SuppressedTwice ==
    /\ call.fn = "suppress_overlapping_detections" /\ call.done /\ call.again
    /\ Len(call.detections) = 3
    /\ Len(call.result) = 1
    /\ call.result2 = call.result

\* twice the corners of a box, without halving
Left(box) == 2 * box.x - box.width
Right(box) == 2 * box.x + box.width
Top(box) == 2 * box.y - box.height
Bottom(box) == 2 * box.y + box.height
Area(box) == box.width * box.height

\* the boxes share no area
Disjoint(a, b) ==
    \/ Right(a) <= Left(b) \/ Right(b) <= Left(a)
    \/ Bottom(a) <= Top(b) \/ Bottom(b) <= Top(a)

\* box a contains box b
Contains(a, b) ==
    /\ Left(a) <= Left(b) /\ Right(b) <= Right(a)
    /\ Top(a) <= Top(b) /\ Bottom(b) <= Bottom(a)

\* C15: the IoU of identical boxes of positive area is 1, of boxes that share no
\* area 0, of a box and a box it contains of half its area 1/2; it is symmetric
\* in its arguments, within [0, 1], and 0 when the union area is not positive.
IoUValues ==
    (call.fn = "iou_xywh" /\ call.done) =>
        LET a == call.first
            b == call.second
            iou == call.result
            swapped == iou_xywh(b, a)
        IN  /\ (a = b /\ Area(a) > 0) => iou[1] = iou[2]
            /\ Disjoint(a, b) => iou[1] = 0
            /\ (Contains(a, b) /\ 2 * Area(b) = Area(a) /\ Area(a) > 0) => 2 * iou[1] = iou[2]
            /\ iou[1] * swapped[2] = swapped[1] * iou[2]
            /\ 0 <= iou[1] /\ iou[1] <= iou[2]
            /\ (Area(a) = 0 /\ Area(b) = 0) => iou[1] = 0

\* the IoU of a box and its left half has been computed as 1/2
IoUOfHalf ==
    /\ call.fn = "iou_xywh" /\ call.done
    /\ call.first = [x |-> 2, y |-> 2, width |-> 4, height |-> 4]
    /\ call.second = [x |-> 1, y |-> 2, width |-> 2, height |-> 4]
    /\ call.result = <<8, 16>>

\* a step in which loop t completes a detection pass
DetectTick(t) == InferenceAfterDetect(t) /\ ~tasks[t].must_cancel

\* the persisted inference frames of project p
Persisted(p) ==
    {i \in DOMAIN frames : frames[i].project_id = p /\ frames[i].source = "inference"}

\* every detection of the list lies outside the confidence band of the project
OutsideBand(dets) ==
    \A i \in DOMAIN dets :
        \/ dets[i].confidence < low_threshold(limits.project)
        \/ dets[i].confidence > high_threshold(limits.project)

\* C12: in every tick in which every detection's confidence is below the low or
\* above the high threshold and the time since the last persisted sample is
\* less than the auto-sample interval, no Frame is persisted, and the
\* detections are in the live snapshot of the tick.
NoSampleOutsideBand ==
    [][\A t \in TaskIds :
        DetectTick(t) =>
            LET p == tasks[t].project_id
                dets == tasks'[t].detections
                recent == \E i \in Persisted(p) :
                             tasks'[t].now - frames[i].captured_at
                                 < auto_sample_interval(limits.project)
            IN  (OutsideBand(dets) /\ recent) =>
                    /\ frames' = frames
                    /\ latest_inference_live'[p].detections = dets]_vars

\* C16: every tick that captures a live frame refreshes the live snapshot,
\* whatever the sampling decision, and within one run of the loop the tick id
\* of the snapshot grows by exactly 1 per such tick, starting from 1.
SnapshotEveryTick ==
    [][\A t \in TaskIds :
        /\ DetectTick(t) =>
              /\ latest_inference_live'[tasks[t].project_id].tick_id = tasks[t].live_tick_id + 1
              /\ latest_inference_live'[tasks[t].project_id].file_path = tasks[t].live_abs_path
              /\ tasks'[t].live_tick_id = tasks[t].live_tick_id + 1
        /\ (InferenceLoopStart(t) /\ Executing(tasks'[t])) => tasks'[t].live_tick_id = 0
        /\ (Executing(tasks[t]) /\ Executing(tasks'[t]) /\ ~InferenceAfterDetect(t)) =>
              tasks'[t].live_tick_id = tasks[t].live_tick_id]_vars

\* a loop has published its second snapshot after one tick that sampled and one
\* that did not
SecondSnapshot ==
    \E t \in TaskIds :
        /\ Executing(tasks[t])
        /\ tasks[t].live_tick_id = 2
        /\ tasks[t].frames_processed = 2
        /\ latest_inference_live[tasks[t].project_id].tick_id = 2
        /\ Len(frames) = 1

\* the detection a detections row holds
RowDetection(row) ==
    Detection(row.class_name, row.confidence, row.x, row.y, row.width, row.height)

\* C17: a Frame with source = inference and its Detection rows are persisted in
\* a tick iff the sampling decision of the tick is positive, and together: every
\* Detection row references a persisted Frame, the rows of a persisted frame are
\* exactly the post-suppression detections of the tick's live snapshot, and the
\* project's last-inferred-frame pointer is the id of the new Frame.
FrameAndDetectionsTogether ==
    /\ [](\A i \in DOMAIN detection_rows : detection_rows[i].frame_id \in DOMAIN frames)
    /\ [][/\ (\A t \in TaskIds : ~DetectTick(t)) =>
                UNCHANGED <<frames, detection_rows, last_inferred_frame_id>>
          /\ \A t \in TaskIds :
                DetectTick(t) =>
                    LET p == tasks[t].project_id
                        id == Len(frames) + 1
                        dets == latest_inference_live'[p].detections
                        n == Len(detection_rows)
                    IN  IF tasks'[t].should_sample /\ tasks'[t].tick_error = "none"
                        THEN /\ Len(frames') = id
                             /\ SubSeq(frames', 1, id - 1) = frames
                             /\ frames'[id].project_id = p
                             /\ frames'[id].source = "inference"
                             /\ Len(detection_rows') = n + Len(dets)
                             /\ SubSeq(detection_rows', 1, n) = detection_rows
                             /\ \A i \in DOMAIN dets :
                                   /\ detection_rows'[n + i].frame_id = id
                                   /\ RowDetection(detection_rows'[n + i]) = dets[i]
                             /\ last_inferred_frame_id'[p] = id
                        ELSE UNCHANGED <<frames, detection_rows, last_inferred_frame_id>>]_vars

\* one tick has persisted a frame with two detections of different classes,
\* another tick of the same loop has persisted nothing
FrameWithTwoDetections ==
    /\ Len(frames) = 1
    /\ Len(detection_rows) = 2
    /\ detection_rows[1].frame_id = 1 /\ detection_rows[2].frame_id = 1
    /\ detection_rows[1].class_name # detection_rows[2].class_name
    /\ last_inferred_frame_id[1] = 1
    /\ \E t \in TaskIds : tasks[t].frames_processed = 2 /\ ~tasks[t].should_sample

\* C18: with a model loaded, a frame grabbed and one detection of confidence
\* 0.45 under low 0.3 and high 0.7, the tick persists exactly one Frame with
\* source = inference and exactly one Detection row, raises the tick id of the
\* live snapshot by 1 and raises the session's frames_processed by 1.
EndToEndTick ==
    [][\A t \in TaskIds :
        (/\ DetectTick(t)
         /\ tasks'[t].detections = <<Detection("a", 450, 2, 2, 4, 4)>>
         /\ limits.project = DefaultSettings
         /\ tasks'[t].tick_error = "none") =>
            LET p == tasks[t].project_id
                sid == tasks[t].session_id
            IN  /\ Len(frames') = Len(frames) + 1
                /\ frames'[Len(frames')].source = "inference"
                /\ Len(detection_rows') = Len(detection_rows) + 1
                /\ detection_rows'[Len(detection_rows')].confidence = 450
                /\ latest_inference_live'[p].tick_id = tasks[t].live_tick_id + 1
                /\ sessions'[sid].frames_processed = sessions[sid].frames_processed + 1]_vars

\* the first tick of a loop has seen one detection of confidence 0.45 and
\* persisted it before the auto interval has passed
OneUncertainDetectionPersisted ==
    /\ limits.project = DefaultSettings
    /\ Len(frames) = 1
    /\ frames[1].captured_at = 0
    /\ Len(detection_rows) = 1
    /\ detection_rows[1].confidence = 450
    /\ \E t \in TaskIds :
        /\ Executing(tasks[t])
        /\ tasks[t].live_tick_id = 1
        /\ latest_inference_live[tasks[t].project_id].tick_id = 1
        /\ sessions[tasks[t].session_id].frames_processed = 1

\* C19: the frames_processed of a session increases by exactly 1 in every tick
\* of its loop that completes a detection pass, persisted or not, also when
\* the copy of the frame or the commit fails later in the tick; it changes in
\* no other step and never decreases.
FramesProcessedCountsTicks ==
    [][\A i \in DOMAIN sessions :
        sessions'[i].frames_processed =
            IF \E t \in TaskIds : DetectTick(t) /\ tasks[t].session_id = i
            THEN sessions[i].frames_processed + 1
            ELSE sessions[i].frames_processed]_vars

\* C20: an exception raised inside a tick is caught at the tick boundary and
\* the loop goes on to the next tick: a loop ends by cancellation or because
\* the project record is absent, never with an error.
LoopEndsOnlyByCancelOrMissing ==
    \A t \in TaskIds : tasks[t].pc # "error"

\* C21: the live-frame files of a project on disk are bounded over a run of the
\* inference loop, also when ticks fail or are cancelled after the grab; after
\* the loop has exited no live file written by it remains on disk.
LoopLeavesNoLiveFile ==
    \A t \in TaskIds : Done(tasks[t]) => tasks[t].live_abs_path \notin disk

\* C23: get_latest_inference_live returns a defensive copy: whatever a caller
\* does to a snapshot it got, to its keys or to its nested detections list, a
\* later get returns what the last set_latest_inference_live stored, and None
\* after a set with None.
SnapshotIsDefensiveCopy ==
    call.fn = "get_latest_inference_live" =>
        \A p \in limits.projects : Deref(get_latest_inference_live(p)) = call.written

ActiveDeployments(p) ==
    {i \in 1..Len(deployments) : deployments[i].project_id = p /\ deployments[i].is_active}

\* C24: in every reachable state each project has at most one Deployment with
\* is_active = true, whatever sequence of deploy operations ran.
AtMostOneActiveDeployment ==
    \A p \in Projects : Cardinality(ActiveDeployments(p)) <= 1

\* two versions of project 1 deployed back to back (and one of project 2)
DeployedBackToBack ==
    \E i \in 1..Len(deployments) :
        /\ i + 2 <= Len(deployments)
        /\ deployments[i].project_id = 1 /\ deployments[i].model_version_id = 1
        /\ deployments[i + 1].project_id = 1 /\ deployments[i + 1].model_version_id = 2
        /\ deployments[i + 2].project_id = 2
        /\ ActiveDeployments(1) = {i + 1}
        /\ ActiveDeployments(2) = {i + 2}

\* the step of loop t that starts a tick which finds c and, if deployed, version v
TickStarts(t, c, v) ==
    /\ tasks[t].kind = "inference"
    /\ ~tasks[t].must_cancel
    /\ \/ InferenceLoopStart(t) /\ FirstTick(t, c, v)
       \/ InferenceAfterSleep(t) /\ LaterTick(t, c, v)

\* the step starts no resolution and no grab, and changes neither the live
\* snapshot, the tick id, the frame count, the Frame and Detection tables nor
\* the files on disk; the loop goes to its sleep
NoOpTick(t) ==
    /\ tasks'[t].pc = "sleep"
    /\ tasks'[t].live_tick_id = tasks[t].live_tick_id
    /\ tasks'[t].frames_processed = tasks[t].frames_processed
    /\ tasks'[t].stream_url = tasks[t].stream_url
    /\ UNCHANGED <<latest_inference_live, frames, detection_rows, last_inferred_frame_id,
                   disk, nfiles>>

\* C22: a tick that finds the active deployment pointing at a model version whose
\* weights file is missing leaves the detector unloaded and is a no-op; the loop
\* keeps running.
MissingWeightsNoOp ==
    [][\A t \in TaskIds : \A v \in limits.versions \ limits.weights :
           TickStarts(t, "deployed", v) => tasks'[t].model = None /\ NoOpTick(t)]_vars

\* a loop that had loaded version 1 is idle, unloaded, after a tick on version 2
UnloadedAfterMissingWeights ==
    \E t \in TaskIds :
        /\ tasks[t].pc = "sleep"
        /\ tasks[t].model = None
        /\ tasks[t].model_version_id = 1
        /\ 2 \in limits.versions \ limits.weights

\* the session row of loop t is left as it was, or as _open_session made it if
\* the step is the loop's first
SessionRowKept(t) ==
    IF tasks[t].pc = "created"
    THEN sessions'[tasks'[t].session_id] =
             [project_id |-> tasks[t].project_id, stopped_at |-> None,
              frames_processed |-> 0, model_version_id |-> None]
    ELSE sessions' = sessions

\* C25: a tick that finds no active Deployment is a no-op: no resolution, no
\* grab, the live snapshot, the tick id, frames_processed, the session row and
\* the Frame and Detection tables stay as they are, the loaded model is kept,
\* and the loop goes to its sleep.
NoDeploymentNoOp ==
    [][\A t \in TaskIds : \A v \in limits.versions :
           TickStarts(t, "no_deployment", v) =>
               /\ NoOpTick(t)
               /\ SessionRowKept(t)
               /\ tasks'[t].model = tasks[t].model
               /\ tasks'[t].model_version_id = tasks[t].model_version_id]_vars

\* a loop asleep after ticks that found nothing to load: no model, no stream
\* handle, no frame, its session open and untouched
AsleepWithoutDeployment ==
    \E t \in TaskIds :
        /\ tasks[t].kind = "inference"
        /\ tasks[t].pc = "sleep"
        /\ tasks[t].interval_set
        /\ tasks[t].model_version_id = None
        /\ ~tasks[t].stream_url
        /\ sessions[tasks[t].session_id].stopped_at = None
        /\ sessions[tasks[t].session_id].model_version_id = None
        /\ latest_inference_live[tasks[t].project_id] = NoSnapshot
        /\ frames = <<>>

\* the open session of every running loop names the model the loop loaded last
SessionFollowsLoadedModel ==
    \A t \in TaskIds :
        tasks[t].kind = "inference" /\ Executing(tasks[t]) /\ tasks[t].pc # "created" =>
            sessions[tasks[t].session_id].model_version_id = tasks[t].model_version_id

\* C26: a tick loads the model only if the active version's id differs from the
\* cached one; a tick that finds another active version, its weights present,
\* loads it, so that after the tick the loaded model is the active version's;
\* the open session's model_version_id is the id of the model loaded last.
ReloadOnVersionChange ==
    /\ []SessionFollowsLoadedModel
    /\ [][\A t \in TaskIds : \A v \in limits.versions :
              TickStarts(t, "deployed", v) =>
                  /\ ~ReloadNeeded(tasks[t], v) =>
                         /\ tasks'[t].model = tasks[t].model
                         /\ tasks'[t].model_version_id = tasks[t].model_version_id
                         /\ SessionRowKept(t)
                  /\ v \in limits.weights => tasks'[t].model = v]_vars

\* loop t takes a step of its own, and not the delivery of a cancellation
LoopStep(t) ==
    /\ tasks[t].kind = "inference"
    /\ ~tasks[t].must_cancel
    /\ \/ InferenceLoopStart(t)
       \/ InferenceAfterSleep(t)
       \/ InferenceAfterResolve(t)
       \/ InferenceAfterGrab(t)
       \/ InferenceAfterDetect(t)

\* C27: the inference loop resolves the stream only when no handle is cached;
\* a cached handle is dropped only by a failed grab, after which the next tick
\* resolves again; a failed resolution or grab skips the rest of the tick and
\* the loop goes to its sleep.
StreamHandleCached ==
    [][\A t \in TaskIds : LoopStep(t) =>
           /\ tasks'[t].pc = "resolve" => ~tasks[t].stream_url /\ tasks[t].pc \in {"created", "sleep"}
           /\ tasks[t].stream_url /\ Executing(tasks'[t]) /\ ~tasks'[t].stream_url =>
                  tasks[t].pc = "grab"
           /\ tasks[t].pc = "resolve" /\ ~tasks'[t].stream_url => NoOpTick(t)
           /\ tasks[t].pc = "grab" /\ tasks'[t].pc # "detect" =>
                  ~tasks'[t].stream_url /\ tasks'[t].pc = "sleep" /\ tasks'[t].live_tick_id = tasks[t].live_tick_id /\ tasks'[t].frames_processed = tasks[t].frames_processed /\ UNCHANGED <<latest_inference_live, frames, detection_rows, last_inferred_frame_id, disk, nfiles>>
           /\ tasks[t].pc = "sleep" /\ tasks[t].stream_url /\ Executing(tasks'[t]) =>
                  tasks'[t].pc \in {"sleep", "grab"}]_vars

\* a loop that resolves again: it has processed a frame, so a handle was cached,
\* and a later grab failed
ResolvesAgainAfterFailedGrab ==
    \E t \in TaskIds :
        /\ tasks[t].pc = "resolve"
        /\ tasks[t].frames_processed >= 1

\* capture loop t takes a step of its own, and not the delivery of a cancellation
CaptureStep(t) ==
    /\ tasks[t].kind = "capture"
    /\ ~tasks[t].must_cancel
    /\ \/ CaptureLoopStart(t)
       \/ CaptureAfterSleep(t)
       \/ CaptureAfterResolve(t)
       \/ CaptureAfterGrab(t)

CaptureFrames == {i \in DOMAIN frames : frames[i].source # "inference"}

CleanedUp(tk) ==
    /\ sessions'[tk.session_id].stopped_at # None
    /\ latest_inference_live'[tk.project_id] = NoSnapshot
    /\ tk.latest_live_file \notin disk'

\* C30: a cancellation delivered to a loop in its sleep between two ticks ends
\* the loop there: the task is done, cancelled, and has started no other tick;
\* the inference loop has then run its cleanup.
CancelEndsSleep ==
    [][\A t \in TaskIds :
           /\ tasks[t].kind \in {"capture", "inference"}
           /\ tasks[t].pc = "sleep"
           /\ tasks[t].must_cancel
           /\ tasks'[t] # tasks[t]
           /\ tasks'[t].pc # "killed"
           => /\ tasks'[t].pc = "cancelled"
              /\ UNCHANGED <<frames, detection_rows, last_capture_at, nfiles>>
              /\ tasks[t].kind = "inference" => CleanedUp(tasks[t])]_vars

\* both loops are in their sleep and a stop has cancelled them
SleepersCancelled ==
    /\ tasks[1].kind = "capture" /\ tasks[1].pc = "sleep" /\ tasks[1].must_cancel
    /\ tasks[2].kind = "inference" /\ tasks[2].pc = "sleep" /\ tasks[2].must_cancel

\* the step delivers a cancellation to loop t at one of its awaits
CancelDelivered(t) ==
    /\ tasks[t].kind \in {"capture", "inference"}
    /\ Executing(tasks[t])
    /\ tasks[t].must_cancel
    /\ tasks'[t].pc = "cancelled"

\* the rows of a tick are in the store together: a Detection row belongs to an
\* inference Frame, last_inferred_frame_id names the last inference Frame of
\* the project, last_capture_at is the timestamp of its last captured Frame
StoreIsWhole ==
    /\ \A i \in DOMAIN detection_rows :
           /\ detection_rows[i].frame_id \in DOMAIN frames
           /\ frames[detection_rows[i].frame_id].source = "inference"
    /\ \A p \in Projects :
           LET inferred == {i \in DOMAIN frames :
                                frames[i].project_id = p /\ frames[i].source = "inference"}
               captured == {i \in DOMAIN frames :
                                frames[i].project_id = p /\ frames[i].source # "inference"}
           IN  /\ last_inferred_frame_id[p] =
                      IF inferred = {} THEN None
                      ELSE CHOOSE i \in inferred : \A j \in inferred : j <= i
               /\ last_capture_at[p] =
                      IF captured = {} THEN None
                      ELSE frames[CHOOSE i \in captured : \A j \in captured : j <= i].captured_at

\* C31: a cancellation delivered at an await of the capture loop or of the
\* inference loop changes nothing in the durable store but the close of the
\* session, and the store never holds a part of a tick's write: the Frame, its
\* Detections and the project's bookkeeping are committed together or not at all.
NoPartialWrite ==
    /\ []StoreIsWhole
    /\ [][\A t \in TaskIds : CancelDelivered(t) =>
              UNCHANGED <<frames, detection_rows, last_inferred_frame_id, last_capture_at>>]_vars

\* both loops have committed a tick, the inference loop with a detection, and
\* the capture loop has then been cancelled
CancelledAfterCommits ==
    /\ tasks[1].kind = "capture" /\ tasks[1].pc = "cancelled"
    /\ Len(detection_rows) >= 1
    /\ last_capture_at[1] # None
    /\ last_inferred_frame_id[1] # None
    /\ \E t \in TaskIds : tasks[t].kind = "inference" /\ tasks[t].pc = "cancelled"


\* C38: the loop's last-sampled time moves only in a step that commits a Frame
\* of the loop's project, so that the next decision measures the elapsed time
\* from the last Frame that was persisted.
LastSampledFollowsCommit ==
    [][\A t \in TaskIds :
          (tasks[t].kind = "inference" /\ ~Done(tasks'[t])
             /\ tasks'[t].last_sampled_at # tasks[t].last_sampled_at) =>
          /\ Len(frames') = Len(frames) + 1
          /\ frames'[Len(frames')].project_id = tasks[t].project_id]_vars


\* C35: a tick that finds the active deployment on a version whose weights file
\* exists goes past the model load to the stream resolution or the grab, with
\* that version's model loaded, whatever the versions of the ticks before it.
TickRunsActiveModel ==
    [][\A t \in TaskIds : \A v \in limits.versions :
          (TickStarts(t, "deployed", v) /\ v \in limits.weights) =>
              /\ tasks'[t].pc \in {"resolve", "grab"}
              /\ tasks'[t].model = v]_vars


\* C37: whenever the live snapshot of a project is not none, the file it names
\* is on disk: a tick deletes the file of the tick before only after it has
\* published its own, and the exit of the loop clears the snapshot in the step
\* that removes the file.
SnapshotFileExists ==
    \A p \in Projects :
        get_latest_inference_live(p) # NoSnapshot =>
            get_latest_inference_live(p).file_path \in disk

\* a second tick has published its file and deleted the file of the first
SecondSnapshotPublished ==
    /\ get_latest_inference_live(1).file_path = 2
    /\ 1 \notin disk
    /\ \E t \in TaskIds : tasks[t].kind = "inference" /\ Executing(tasks[t])
                          /\ tasks[t].latest_live_file = 2


\* C39: a session row whose stopped_at is set is never written again: its
\* stopped_at, frames_processed and model_version_id stay as they are.
ClosedSessionFrozen ==
    [][\A i \in DOMAIN sessions :
          sessions[i].stopped_at # None => sessions'[i] = sessions[i]]_vars


\* the loops of a kind started for project p that have not terminated
Started(kinds, p) ==
    {t \in TaskIds : /\ tasks[t].kind \in kinds
                     /\ tasks[t].project_id = p
                     /\ tasks[t].pc # "unborn"
                     /\ ~Done(tasks[t])}

\* C34: is_inference_running(p) and is_sampling_running(p) are true exactly when
\* a loop of that kind for p has been started and has not terminated.
RunningIffLoopAlive ==
    \A p \in Projects :
        /\ is_inference_running(p) <=> Started({"inference"}, p) # {}
        /\ is_sampling_running(p) <=> Started({"sampling", "capture"}, p) # {}


\* loop t finds no project row at the head of a tick
ProjectMissing(t) ==
    /\ tasks[t].kind \in {"capture", "inference"}
    /\ ~tasks[t].must_cancel
    /\ tasks[t].pc \in {"created", "sleep"}
    /\ tasks'[t].pc = "returned"

\* the registered loop of the registry has returned by itself
RegisteredReturned(registry, p) ==
    registry[p] # None /\ tasks[registry[p]].pc = "returned"

CachedModelIsActive ==
    \A t \in TaskIds :
        (tasks[t].kind = "inference" /\ tasks[t].pc \in {"resolve", "grab", "detect"}) =>
            /\ tasks[t].model # None
            /\ tasks[t].model = tasks[t].model_version

\* C36: the Detection rows a tick persists carry the id of the model version
\* the detection ran with: whenever a tick runs detection, the cached model was
\* loaded from the version the tick read as active, whatever the deployments
\* of the ticks before it.
DetectionsCarryTheirModel ==
    /\ []CachedModelIsActive
    /\ [][\A t \in TaskIds : DetectTick(t) =>
              \A i \in DOMAIN detection_rows' \ DOMAIN detection_rows :
                  detection_rows'[i].model_version_id = tasks[t].model]_vars

\* one loop has persisted a detection of version 1 and then one of version 2
RowsOfBothVersions ==
    /\ Len(detection_rows) = 2
    /\ detection_rows[1].model_version_id = 1
    /\ detection_rows[2].model_version_id = 2


\* C32: a detection pass that raises or does not find the frame file returns an
\* empty list, and the tick completes as one with no detection: the loop goes
\* to its sleep, the snapshot is refreshed with an empty list, the sampling
\* decision is the one of the empty list, and frames_processed is raised by 1
\* in the loop and in its session row.
DetectorFailsSoftly ==
    [][\A t \in TaskIds : \A raw \in limits.detector :
       \A outcome \in DetectOutcomes \ {"detections"} :
       \A now \in Readings : \A error \in TickErrors :
          (DetectTick(t) /\ DetectReturns(t, raw, outcome, now, error)) =>
              LET tk == tasks[t]
                  decision == should_sample_frame(<<>>, tk.last_sampled_at, now,
                                  auto_sample_interval(limits.project),
                                  low_threshold(limits.project),
                                  high_threshold(limits.project))
              IN  /\ tasks'[t].pc = "sleep"
                  /\ tasks'[t].detections = <<>>
                  /\ get_latest_inference_live(tk.project_id)' = Snapshot(tk, <<>>)
                  /\ tasks'[t].should_sample = decision.sample
                  /\ tasks'[t].frames_processed = tk.frames_processed + 1
                  /\ sessions'[tk.session_id].frames_processed = tk.frames_processed + 1]_vars


\* C33: under a fair event loop every stop_inference and stop_sampling call
\* that cancelled a running loop and waits for it returns, at whichever await
\* the loop was cancelled.
StopEventuallyReturns ==
    \A t \in TaskIds : (waiters[t] > 0) ~> (waiters[t] = 0)

\* the capture loop and an inference loop have been cancelled by stop calls
\* that have returned and cleared the registries
BothStopsReturned ==
    /\ tasks[1].kind = "capture" /\ tasks[1].pc = "cancelled"
    /\ tasks[2].kind = "inference" /\ tasks[2].pc = "cancelled"
    /\ tasks[2].session_id # None
    /\ \A t \in TaskIds : waiters[t] = 0
    /\ sampling_tasks[1] = None
    /\ inference_tasks[1] = None
====
